---- MODULE Spec2Model ----
(***************************************************************************)
(* Configuration drift comparison engine of meraki_config_diff.            *)
(*                                                                         *)
(* Snapshots are JSON values.  A value is a record                         *)
(*     [t |-> type tag, s |-> text of a scalar, m |-> map, l |-> list]     *)
(* with t in {"int", "str", "null", "map", "list"}.  Python None and JSON  *)
(* null are the same value (JNull).  A Python dict is a function from key  *)
(* strings to values (m) together with the order its keys were inserted in *)
(* (l holds the keys); where the code iterates over a dict the model       *)
(* iterates in that order.  Strings are TLA+ strings, processed character  *)
(* by character where the code parses or formats them.                     *)
(***************************************************************************)
EXTENDS Naturals, Sequences, FiniteSets, TLC

VARIABLES
    baseline,      \* json1: the reference snapshot handed to the engine
    current,       \* json2: the current snapshot handed to the engine
    group_by_key,  \* grouping key name of the operation, "" when it has none
    method,        \* comparison method that produced `summary`
    summary,       \* ComparisonSummary returned by the engine
    diff_events,   \* the DeepDiff events the structural classifier consumed
    flat_ref,      \* flatten_json(baseline) of the last flatten step
    flat_cur,      \* flatten_json(current) of the last flatten step
    flat_out,      \* result of flat_compare_differences_enhanced
    pc,            \* position of the engine-level run
    entities,      \* orchestrator: the entity records, in the order supplied
    idx,           \* orchestrator: index of the next entity of the loop
    results,       \* orchestrator: the `results` list of the pass
    fetch_log,     \* orchestrator: entity indices the fetch function was called for
    opc,           \* orchestrator: position of core_data_operation
    returned,      \* orchestrator: value core_data_operation returned
    org_ids,       \* orchestrator: the organization id allow-list of the call
    baseline_file, \* orchestrator: content of the selected baseline file
    listing,       \* orchestrator: what get_entities_func does when it is called
    filters,       \* orchestrator: network_tags, device_models, device_tags and
                   \* product_types of the call
    impl,          \* entry point: "module" (compare_functions) or "class" (ProjectLogic)
    task,          \* entry point: the task of core_data_operation
    scope,         \* entry point: the scope of core_data_operation
    store_env,     \* entry point: what the fetch and the save of a store will do
    saved,         \* entry point: the snapshot files written by store
    operations,    \* comparison run: the operations of the scope with their stored files
    operation_selections, \* comparison run: the data the form returned
    op_idx,        \* comparison run: index of the next operation
    run_results,   \* comparison run: the results map of perform_comparison
    transform_in,  \* arguments of a call of _transform_list_to_dict_by_key
    transform_out, \* its outcome
    grouping_in,   \* a flat key, the transformation flag and the known item ids
    grouping_out,  \* the item id and field the key is grouped under
    device_in,     \* arguments of a call of _device_filter
    device_out,    \* its outcome
    path_in,       \* a DeepDiff path handed to _extract_path_components
    path_out       \* the components it returned

vars == <<baseline, current, group_by_key, method, summary, diff_events,
          flat_ref, flat_cur, flat_out, pc,
          entities, idx, results, fetch_log, opc, returned, org_ids, baseline_file,
          listing, filters,
          impl, task, scope, store_env, saved,
          operations, operation_selections, op_idx, run_results,
          transform_in, transform_out, grouping_in, grouping_out, device_in, device_out,
          path_in, path_out>>

engineVars == <<baseline, current, group_by_key, method, summary, diff_events,
                flat_ref, flat_cur, flat_out, pc>>

orchVars == <<entities, idx, results, fetch_log, opc, returned, org_ids, baseline_file,
              listing, filters>>

coreVars == <<impl, task, scope, store_env, saved>>

uiVars == <<operations, operation_selections, op_idx, run_results>>

fnVars == <<transform_in, transform_out, grouping_in, grouping_out, device_in, device_out,
           path_in, path_out>>

-----------------------------------------------------------------------------
(* Python strings                                                          *)

\* The characters the model uses, in code point order.
CharTable == " !\"'+-./0123456789:@ABCDEFGHIJKLMNOPQRSTUVWXYZ[]_abcdefghijklmnopqrstuvwxyz"

Digits == "0123456789"

CharAt(str, i) == SubSeq(str, i, i)

InStr(c, table) == \E i \in 1..Len(table) : CharAt(table, i) = c

\* ord(c): position of each character in code point order
CodePoints == [c \in {CharAt(CharTable, i) : i \in 1..Len(CharTable)} |->
                  CHOOSE i \in 1..Len(CharTable) : CharAt(CharTable, i) = c]

Ord(c) == CodePoints[c]

DigitChars == {CharAt(Digits, i) : i \in 1..Len(Digits)}

IsDigit(c) == c \in DigitChars

DigitVal(c) == CodePoints[c] - CodePoints["0"]

\* str.startswith
StartsWith(str, prefix) ==
    /\ Len(prefix) <= Len(str)
    /\ SubSeq(str, 1, Len(prefix)) = prefix

\* str < str of Python: lexicographic by code point
RECURSIVE StrLess(_, _)
StrLess(a, b) ==
    IF Len(b) = 0 THEN FALSE
    ELSE IF Len(a) = 0 THEN TRUE
    ELSE IF CharAt(a, 1) = CharAt(b, 1)
         THEN StrLess(SubSeq(a, 2, Len(a)), SubSeq(b, 2, Len(b)))
         ELSE Ord(CharAt(a, 1)) < Ord(CharAt(b, 1))

MinStr(S) == CHOOSE x \in S : \A y \in S : y = x \/ StrLess(x, y)

\* sorted(set of str)
RECURSIVE SortedStrs(_)
SortedStrs(S) ==
    IF S = {} THEN <<>>
    ELSE LET x == MinStr(S) IN <<x>> \o SortedStrs(S \ {x})

\* int(str) for a string of digits
RECURSIVE ParseInt(_)
ParseInt(str) ==
    IF Len(str) = 0 THEN 0
    ELSE 10 * ParseInt(SubSeq(str, 1, Len(str) - 1)) + DigitVal(CharAt(str, Len(str)))

\* str(int) for a natural number
RECURSIVE IntToStr(_)
IntToStr(n) ==
    IF n < 10 THEN CharAt(Digits, n + 1)
    ELSE IntToStr(n \div 10) \o CharAt(Digits, (n % 10) + 1)

\* index of the first occurrence of character c in str at or after i, 0 if none
RECURSIVE FindChar(_, _, _)
FindChar(str, c, i) ==
    IF i > Len(str) THEN 0
    ELSE IF CharAt(str, i) = c THEN i
    ELSE FindChar(str, c, i + 1)

\* length of the run of digits of str that starts at i
RECURSIVE DigitRun(_, _)
DigitRun(str, i) ==
    IF i > Len(str) \/ ~IsDigit(CharAt(str, i)) THEN 0
    ELSE 1 + DigitRun(str, i + 1)

-----------------------------------------------------------------------------
(* JSON values                                                             *)

JInt(n)  == [t |-> "int",  s |-> IntToStr(n), m |-> <<>>, l |-> <<>>]
JStr(x)  == [t |-> "str",  s |-> x,           m |-> <<>>, l |-> <<>>]
JNull    == [t |-> "null", s |-> "",          m |-> <<>>, l |-> <<>>]
JList(q) == [t |-> "list", s |-> "",          m |-> <<>>, l |-> q]

\* a dict with the entries f, its keys inserted in the order `keys`
JMapOrd(f, keys) ==
    [t |-> "map", s |-> "", m |-> f, l |-> [i \in 1..Len(keys) |-> JStr(keys[i])]]

\* a dict whose keys were inserted in ascending order
JMap(f) == JMapOrd(f, SortedStrs(DOMAIN f))

\* list(d.keys()): the keys of a dict in insertion order
KeyOrder(v) == [i \in 1..Len(v.l) |-> v.l[i].s]

\* the value with the keys of every dict of it in ascending order: two
\* values are equal for Python (a == b) when these are the same
RECURSIVE Canon(_)
Canon(v) ==
    IF v.t = "map" THEN JMap([k \in DOMAIN v.m |-> Canon(v.m[k])])
    ELSE IF v.t = "list" THEN JList([i \in 1..Len(v.l) |-> Canon(v.l[i])])
    ELSE v

PyEq(a, b) == Canon(a) = Canon(b)

NA == JStr("N/A")

IsDict(v) == v.t = "map"
IsList(v) == v.t = "list"
IsNone(v) == v.t = "null"

\* bool(v) of Python: None, empty containers, 0 and "" are falsy
Truthy(v) ==
    CASE v.t = "null" -> FALSE
      [] v.t = "map"  -> DOMAIN v.m # {}
      [] v.t = "list" -> Len(v.l) > 0
      [] v.t = "int"  -> v.s # "0"
      [] OTHER        -> v.s # ""

\* f"{key}" / str(key) of a scalar used as a dict key
KeyText(v) == v.s

\* dict.get(key) with the default None
DictGet(f, k) == IF k \in DOMAIN f THEN f[k] ELSE JNull

\* the dict f with key k removed
DictWithout(f, k) == [x \in DOMAIN f \ {k} |-> f[x]]

\* the dict f with f[k] = v assigned
DictPut(f, k, v) == [x \in DOMAIN f \cup {k} |-> IF x = k THEN v ELSE f[x]]

-----------------------------------------------------------------------------
(* DeepDiff paths and _extract_path_components                             *)

\* DeepDiff's rendering of one path segment: ['key'] for a string key
\* (["key"] when the key holds a single quote), [n] for an integer.
PathSeg(k) ==
    IF k.t = "int" THEN "[" \o k.s \o "]"
    ELSE IF k.t = "null" THEN "[None]"
    ELSE IF InStr("'", k.s) THEN "[\"" \o k.s \o "\"]"
    ELSE "['" \o k.s \o "']"

\* re.sub(r"\[\'([^\']+)\'\]", r'.\1', str), scanning from position i
RECURSIVE SubQuotedKeys(_, _)
SubQuotedKeys(str, i) ==
    IF i > Len(str) THEN ""
    ELSE LET q == IF CharAt(str, i) = "[" /\ i + 1 <= Len(str) /\ CharAt(str, i + 1) = "'"
                  THEN FindChar(str, "'", i + 2)
                  ELSE 0
         IN IF q > i + 2 /\ q + 1 <= Len(str) /\ CharAt(str, q + 1) = "]"
            THEN "." \o SubSeq(str, i + 2, q - 1) \o SubQuotedKeys(str, q + 2)
            ELSE CharAt(str, i) \o SubQuotedKeys(str, i + 1)

\* re.sub(r'\[(\d+)\]', r'.\1', str), scanning from position i
RECURSIVE SubIndices(_, _)
SubIndices(str, i) ==
    IF i > Len(str) THEN ""
    ELSE LET d == IF CharAt(str, i) = "[" THEN DigitRun(str, i + 1) ELSE 0
         IN IF d > 0 /\ i + d + 1 <= Len(str) /\ CharAt(str, i + d + 1) = "]"
            THEN "." \o SubSeq(str, i + 1, i + d) \o SubIndices(str, i + d + 2)
            ELSE CharAt(str, i) \o SubIndices(str, i + 1)

\* re.sub(r'\.{2,}', '.', str)
RECURSIVE CollapseDots(_)
CollapseDots(str) ==
    IF Len(str) = 0 THEN ""
    ELSE IF Len(str) >= 2 /\ CharAt(str, 1) = "." /\ CharAt(str, 2) = "."
         THEN CollapseDots(SubSeq(str, 2, Len(str)))
         ELSE CharAt(str, 1) \o CollapseDots(SubSeq(str, 2, Len(str)))

\* str.strip('.')
RECURSIVE StripDots(_)
StripDots(str) ==
    IF Len(str) = 0 THEN ""
    ELSE IF CharAt(str, 1) = "." THEN StripDots(SubSeq(str, 2, Len(str)))
    ELSE IF CharAt(str, Len(str)) = "." THEN StripDots(SubSeq(str, 1, Len(str) - 1))
    ELSE str

NoPath == [item_id |-> JNull, field |-> JNull, is_root_item |-> FALSE]

\* _extract_path_components: (item_id, field_path, is_root_item_only)
_extract_path_components(path_str) ==
    IF ~StartsWith(path_str, "root[") THEN NoPath
    ELSE LET n  == Len(path_str)
             q  == IF n >= 6 /\ CharAt(path_str, 6) = "'" THEN FindChar(path_str, "'", 7) ELSE 0
             d  == DigitRun(path_str, 6)
             byKey   == q > 7 /\ q + 1 <= n /\ CharAt(path_str, q + 1) = "]"
             byIndex == d > 0 /\ 6 + d <= n /\ CharAt(path_str, 6 + d) = "]"
         IN IF ~byKey /\ ~byIndex THEN NoPath
            ELSE LET item_id == IF byKey THEN JStr(SubSeq(path_str, 7, q - 1))
                                ELSE JInt(ParseInt(SubSeq(path_str, 6, 5 + d)))
                     raw_field_path == IF byKey THEN SubSeq(path_str, q + 2, n)
                                       ELSE SubSeq(path_str, 7 + d, n)
                 IN IF Len(raw_field_path) = 0
                    THEN [item_id |-> item_id, field |-> JNull, is_root_item |-> TRUE]
                    ELSE [item_id |-> item_id,
                          field |-> JStr(StripDots(CollapseDots(
                                      SubIndices(SubQuotedKeys(raw_field_path, 1), 1)))),
                          is_root_item |-> FALSE]

\* str.split('.')
RECURSIVE SplitDots(_)
SplitDots(str) ==
    LET p == FindChar(str, ".", 1)
    IN IF p = 0 THEN <<str>>
       ELSE <<SubSeq(str, 1, p - 1)>> \o SplitDots(SubSeq(str, p + 1, Len(str)))

\* str.strip(): the white space the strings of the model can hold is the blank
RECURSIVE Strip(_)
Strip(str) ==
    IF Len(str) = 0 THEN ""
    ELSE IF CharAt(str, 1) = " " THEN Strip(SubSeq(str, 2, Len(str)))
    ELSE IF CharAt(str, Len(str)) = " " THEN Strip(SubSeq(str, 1, Len(str) - 1))
    ELSE str

\* the text int(str) reads its digits from: white space and sign taken off
Unsigned(str) ==
    LET t == Strip(str)
    IN IF Len(t) > 0 /\ CharAt(t, 1) \in {"+", "-"} THEN SubSeq(t, 2, Len(t)) ELSE t

RECURSIVE WithoutUnderscores(_)
WithoutUnderscores(str) ==
    IF Len(str) = 0 THEN ""
    ELSE IF CharAt(str, 1) = "_" THEN WithoutUnderscores(SubSeq(str, 2, Len(str)))
    ELSE CharAt(str, 1) \o WithoutUnderscores(SubSeq(str, 2, Len(str)))

\* int(str) does not raise ValueError: digits with single underscores between
\* them, after an optional sign, with white space around
IsIntText(str) ==
    LET u == Unsigned(str)
    IN /\ Len(u) > 0
       /\ IsDigit(CharAt(u, 1))
       /\ IsDigit(CharAt(u, Len(u)))
       /\ \A i \in 2..Len(u) :
              IsDigit(CharAt(u, i)) \/ (CharAt(u, i) = "_" /\ IsDigit(CharAt(u, i - 1)))

\* list[int(part)] on a list of n elements: the position of the element
\* counted from 1, a negative index counting from the end; 0 for IndexError
ListPosition(part, n) ==
    LET k == ParseInt(WithoutUnderscores(Unsigned(part)))
        negative == CharAt(Strip(part), 1) = "-"
    IN IF negative /\ k > 0
       THEN IF k <= n THEN n + 1 - k ELSE 0
       ELSE IF k < n THEN k + 1 ELSE 0

\* the call raised ValueError instead of returning a value
ValueErrorRaised == [t |-> "raise", s |-> "ValueError", m |-> <<>>, l |-> <<>>]

Raised(v) == v.t = "raise"

\* _get_value_from_nested_data: None when the path leaves the structure
\* (KeyError, IndexError and TypeError are caught); int(part) of a part that
\* is no integer raises ValueError, which is not caught
RECURSIVE _get_value_from_nested_data(_, _)
_get_value_from_nested_data(data, path_parts) ==
    IF Len(path_parts) = 0 THEN data
    ELSE LET part == Head(path_parts)
         IN IF IsDict(data)
            THEN IF part \in DOMAIN data.m
                 THEN _get_value_from_nested_data(data.m[part], Tail(path_parts))
                 ELSE JNull
            ELSE IF IsList(data)
            THEN IF ~IsIntText(part) THEN ValueErrorRaised
                 ELSE IF ListPosition(part, Len(data.l)) = 0 THEN JNull
                 ELSE _get_value_from_nested_data(data.l[ListPosition(part, Len(data.l))],
                                                  Tail(path_parts))
            ELSE JNull

\* _get_value_from_original_json: the root is indexed by item_id itself,
\* a dict by key and a list by position.
_get_value_from_original_json(json_data, item_id, field_path) ==
    IF IsNone(item_id) \/ ~(IsDict(json_data) \/ IsList(json_data)) THEN JNull
    ELSE LET found ==
                 IF IsDict(json_data)
                 THEN item_id.t = "str" /\ item_id.s \in DOMAIN json_data.m
                 ELSE item_id.t = "int" /\ ParseInt(item_id.s) < Len(json_data.l)
             current_item ==
                 IF IsDict(json_data) THEN json_data.m[item_id.s]
                 ELSE json_data.l[ParseInt(item_id.s) + 1]
         IN IF ~found THEN JNull
            ELSE IF ~IsNone(field_path) /\ field_path.s # ""
                 THEN _get_value_from_nested_data(current_item, SplitDots(field_path.s))
                 ELSE current_item

-----------------------------------------------------------------------------
(* DeepDiff(json1, json2, ignore_order=True, verbose_level=2, group_by=k)  *)

\* concatenation of the sequences of a sequence, in order
RECURSIVE ConcatAll(_)
ConcatAll(qq) ==
    IF qq = <<>> THEN <<>> ELSE Head(qq) \o ConcatAll(Tail(qq))

Range(q) == {q[i] : i \in 1..Len(q)}

\* one entry of the diff: the report key, the path and the two values
DiffEvent(kind, path, old, new) ==
    [kind |-> kind, path |-> path, old_value |-> old, new_value |-> new]

\* the keys of a JSON map as path segments, in iteration order
MapSegs(v) == [i \in 1..Len(v.l) |-> PathSeg(v.l[i])]

MapBySeg(v) == [g \in {PathSeg(JStr(k)) : k \in DOMAIN v.m} |->
                   v.m[CHOOSE k \in DOMAIN v.m : PathSeg(JStr(k)) = g]]

\* first position of each distinct element of a list that the other list lacks
\* (ignore_order: elements are matched by value, not by position)
UnmatchedIndexes(la, lb) ==
    SelectSeq([i \in 1..Len(la) |-> i],
              LAMBDA i : /\ \A j \in 1..Len(lb) : ~PyEq(la[i], lb[j])
                         /\ \A j \in 1..(i - 1) : ~PyEq(la[j], la[i]))

\* the elements of two lists that no element of the other list equals and
\* that are not among the paired ones: an element at an index of both
\* groups is one value change of that index
\* (mutual_add_removes_to_become_value_changes), the others are reported
\* as added, under their index in t2, and as removed, under their index in t1
UnpairedEvents(path, t1, t2, paired1, paired2) ==
    LET removed == SelectSeq(UnmatchedIndexes(t1.l, t2.l), LAMBDA i : i \notin paired1)
        added   == SelectSeq(UnmatchedIndexes(t2.l, t1.l), LAMBDA j : j \notin paired2)
        changed     == SelectSeq(removed, LAMBDA i : i \in Range(added))
        onlyAdded   == SelectSeq(added, LAMBDA j : j \notin Range(removed))
        onlyRemoved == SelectSeq(removed, LAMBDA i : i \notin Range(added))
        at(i) == path \o PathSeg(JInt(i - 1))
    IN    [n \in 1..Len(changed) |->
              DiffEvent("values_changed", at(changed[n]), t1.l[changed[n]], t2.l[changed[n]])]
       \o [n \in 1..Len(onlyAdded) |->
              DiffEvent("iterable_item_added", at(onlyAdded[n]), NA, t2.l[onlyAdded[n]])]
       \o [n \in 1..Len(onlyRemoved) |->
              DiffEvent("iterable_item_removed", at(onlyRemoved[n]), t1.l[onlyRemoved[n]], NA)]

RECURSIVE DiffValue(_, _, _)
RECURSIVE DiffDict(_, _, _, _, _)

\* _diff_dict: keys only in t2, then keys only in t1, then the common keys
DiffDict(path, keys1, rows1, keys2, rows2) ==
    LET added   == SelectSeq(keys2, LAMBDA g : g \notin Range(keys1))
        removed == SelectSeq(keys1, LAMBDA g : g \notin Range(keys2))
        common  == SelectSeq(keys2, LAMBDA g : g \in Range(keys1))
    IN    [i \in 1..Len(added) |->
              DiffEvent("dictionary_item_added", path \o added[i], NA, rows2[added[i]])]
       \o [i \in 1..Len(removed) |->
              DiffEvent("dictionary_item_removed", path \o removed[i], rows1[removed[i]], NA)]
       \o ConcatAll([i \in 1..Len(common) |->
              DiffValue(path \o common[i], rows1[common[i]], rows2[common[i]])])

\* _diff: a type change, a container to descend into, or two scalars; the
\* elements of two lists are matched by value (ignore_order)
DiffValue(path, t1, t2) ==
    IF t1.t # t2.t THEN <<DiffEvent("type_changes", path, t1, t2)>>
    ELSE IF t1.t = "map"
         THEN DiffDict(path, MapSegs(t1), MapBySeg(t1), MapSegs(t2), MapBySeg(t2))
    ELSE IF t1.t = "list" THEN UnpairedEvents(path, t1, t2, {}, {})
    ELSE IF t1 = t2 THEN <<>>
    ELSE <<DiffEvent("values_changed", path, t1, t2)>>

\* group_by applies to a list whose rows are all maps holding the key
CanGroup(v, key) ==
    /\ IsList(v)
    /\ \A i \in 1..Len(v.l) : IsDict(v.l[i]) /\ key \in DOMAIN v.l[i].m

\* a row's key value cannot index a dict (TypeError: unhashable)
Unhashable(v, key) ==
    \E i \in 1..Len(v.l) : v.l[i].m[key].t \in {"map", "list"}

\* _group_iterable_to_dict: result[row.pop(key)] = row, keys in order of
\* first occurrence, a later row replacing an earlier one of the same key
GroupKeys(v, key) ==
    LET segs == [i \in 1..Len(v.l) |-> PathSeg(v.l[i].m[key])]
        firsts == SelectSeq([i \in 1..Len(v.l) |-> i],
                            LAMBDA i : \A j \in 1..(i - 1) : segs[j] # segs[i])
    IN [n \in 1..Len(firsts) |-> segs[firsts[n]]]

GroupRows(v, key) ==
    LET segs == [i \in 1..Len(v.l) |-> PathSeg(v.l[i].m[key])]
    IN [g \in Range(segs) |->
           LET last == CHOOSE i \in 1..Len(v.l) :
                           /\ segs[i] = g
                           /\ \A j \in (i + 1)..Len(v.l) : segs[j] # g
           IN JMapOrd(DictWithout(v.l[last].m, key),
                      SelectSeq(KeyOrder(v.l[last]), LAMBDA k : k # key))]

\* the report keys of the diff in the order DeepDiff lists them
ReportKeys == <<"type_changes", "dictionary_item_added", "dictionary_item_removed",
                "values_changed", "iterable_item_added", "iterable_item_removed">>

ByReportKey(events) ==
    ConcatAll([i \in 1..Len(ReportKeys) |->
                  SelectSeq(events, LAMBDA e : e.kind = ReportKeys[i])])

\* DeepDiff: both snapshots are grouped when both can be, otherwise neither is.
\* raised: grouping met an unhashable key value and DeepDiff threw.
DeepDiff(json1, json2, group_by) ==
    IF group_by # "" /\ CanGroup(json1, group_by) /\ Unhashable(json1, group_by)
    THEN [raised |-> TRUE, events |-> <<>>]
    ELSE IF group_by # "" /\ CanGroup(json1, group_by) /\ CanGroup(json2, group_by)
    THEN IF Unhashable(json2, group_by)
         THEN [raised |-> TRUE, events |-> <<>>]
         ELSE [raised |-> FALSE,
               events |-> ByReportKey(DiffDict("root",
                              GroupKeys(json1, group_by), GroupRows(json1, group_by),
                              GroupKeys(json2, group_by), GroupRows(json2, group_by)))]
    ELSE [raised |-> FALSE, events |-> ByReportKey(DiffValue("root", json1, json2))]

-----------------------------------------------------------------------------
(* compare_differences: the structural classifier                          *)

FieldChange(field, ref, cur) ==
    [field |-> field, reference_value |-> ref, current_value |-> cur]

OtherChange(item_id, field, ref, cur) ==
    [item_id |-> item_id, field |-> field, reference_value |-> ref,
     current_value |-> cur, status |-> "other"]

EntityChange(item_id, status, changes) ==
    [item_id |-> item_id, status |-> status, changes |-> changes]

\* grouped_item_changes is an insertion-ordered dict: a sequence of entries,
\* at most one per item_id
NewEntry(item_id, status) ==
    [item_id |-> item_id, status |-> status, changes |-> <<>>,
     full_item_ref |-> JNull, full_item_curr |-> JNull]

HasItem(g, item_id) == \E i \in 1..Len(g) : g[i].item_id = item_id

\* a slip: a list of entries appended to instead of a dict keyed by item_id
EnsureItemByAppending(g, item_id, status) == Append(g, NewEntry(item_id, status))

\* `if item_id not in grouped_item_changes: grouped_item_changes[item_id] = {...}`
EnsureItem(g, item_id, status) ==
    IF HasItem(g, item_id) THEN g ELSE Append(g, NewEntry(item_id, status))

\* grouped_item_changes[item_id]
ItemOf(g, item_id) == g[CHOOSE i \in 1..Len(g) : g[i].item_id = item_id]

\* grouped_item_changes[item_id] = entry
UpdateItem(g, item_id, entry) ==
    [i \in 1..Len(g) |-> IF g[i].item_id = item_id THEN entry ELSE g[i]]

\* a whole item added: status and full_item_curr are assigned unconditionally
MarkAdded(g, item_id, value) ==
    LET h == EnsureItem(g, item_id, "added")
    IN UpdateItem(h, item_id,
                  [ItemOf(h, item_id) EXCEPT !.status = "added", !.full_item_curr = value])

MarkRemoved(g, item_id, value) ==
    LET h == EnsureItem(g, item_id, "removed")
    IN UpdateItem(h, item_id,
                  [ItemOf(h, item_id) EXCEPT !.status = "removed", !.full_item_ref = value])

\* a nested change: the status becomes "changed" unless added/removed already
AddFieldChange(g, item_id, change) ==
    LET h == EnsureItem(g, item_id, "changed")
        e == ItemOf(h, item_id)
    IN UpdateItem(h, item_id,
                  [e EXCEPT
                      !.status = IF e.status \notin {"added", "removed"} THEN "changed" ELSE e.status,
                      !.changes = Append(e.changes, change)])

RECURSIVE MarkAllRemoved(_, _, _)
MarkAllRemoved(g, root, keys) ==
    IF keys = <<>> THEN g
    ELSE MarkAllRemoved(MarkRemoved(g, JStr(Head(keys)), root.m[Head(keys)]), root, Tail(keys))

RECURSIVE MarkAllAdded(_, _, _)
MarkAllAdded(g, root, keys) ==
    IF keys = <<>> THEN g
    ELSE MarkAllAdded(MarkAdded(g, JStr(Head(keys)), root.m[Head(keys)]), root, Tail(keys))

\* grouped_item_changes and other_changes_list before the loop
NothingClassified == [g |-> <<>>, o |-> <<>>, raised |-> FALSE]

\* the loop body of compare_differences for one entry of the diff;
\* st = [g |-> grouped_item_changes, o |-> other_changes_list,
\*       raised |-> a look-up raised ValueError and ended the call]
\* with pth the components of the entry's path, whole the item of that id
\* and nested the field of that item, both read back from the snapshot that
\* holds them
ClassifyLooked(st, ev, pth, whole, nested) ==
    CASE ev.kind = "values_changed" /\ ev.path = "root" ->
           LET g1 == IF IsDict(ev.old_value)
                     THEN MarkAllRemoved(st.g, ev.old_value, KeyOrder(ev.old_value))
                     ELSE st.g
               g2 == IF IsDict(ev.new_value)
                     THEN MarkAllAdded(g1, ev.new_value, KeyOrder(ev.new_value))
                     ELSE g1
           IN [g |-> g2,
               o |-> IF ~IsDict(ev.old_value) /\ ~IsDict(ev.new_value)
                     THEN Append(st.o, OtherChange(JStr("root"), JStr("type_or_full_value_change"),
                                                   ev.old_value, ev.new_value))
                     ELSE st.o,
               raised |-> FALSE]
      [] ev.kind = "values_changed" /\ ev.path # "root" ->
           IF ~IsNone(pth.item_id)
           THEN [st EXCEPT !.g = AddFieldChange(st.g, pth.item_id,
                     FieldChange(IF pth.is_root_item THEN JStr("full_item_at_index") ELSE pth.field,
                                 ev.old_value, ev.new_value))]
           ELSE [st EXCEPT !.o = Append(st.o,
                     OtherChange(JNull, JStr(ev.path), ev.old_value, ev.new_value))]
      [] ev.kind = "dictionary_item_added" ->
           IF ~IsNone(pth.item_id) /\ pth.is_root_item
           THEN [st EXCEPT !.g = MarkAdded(st.g, pth.item_id,
                     whole)]
           ELSE IF ~IsNone(pth.item_id)
           THEN IF Raised(nested)
                THEN [st EXCEPT !.raised = TRUE]
                ELSE [st EXCEPT !.g = AddFieldChange(st.g, pth.item_id,
                          FieldChange(pth.field, NA,
                                      nested))]
           ELSE [st EXCEPT !.o = Append(st.o,
                     OtherChange(JNull, JStr(ev.path), NA, ev.new_value))]
      [] ev.kind = "dictionary_item_removed" ->
           IF ~IsNone(pth.item_id) /\ pth.is_root_item
           THEN [st EXCEPT !.g = MarkRemoved(st.g, pth.item_id,
                     whole)]
           ELSE IF ~IsNone(pth.item_id)
           THEN IF Raised(nested)
                THEN [st EXCEPT !.raised = TRUE]
                ELSE [st EXCEPT !.g = AddFieldChange(st.g, pth.item_id,
                          FieldChange(pth.field,
                                      nested, NA))]
           ELSE [st EXCEPT !.o = Append(st.o,
                     OtherChange(JNull, JStr(ev.path), ev.old_value, NA))]
      [] ev.kind = "iterable_item_added" ->
           IF ~IsNone(pth.item_id) /\ pth.is_root_item
           THEN [st EXCEPT !.g = MarkAdded(st.g, pth.item_id,
                     whole)]
           ELSE [st EXCEPT !.o = Append(st.o,
                     OtherChange(pth.item_id, JStr(ev.path), NA, ev.new_value))]
      [] ev.kind = "iterable_item_removed" ->
           IF ~IsNone(pth.item_id) /\ pth.is_root_item
           THEN [st EXCEPT !.g = MarkRemoved(st.g, pth.item_id,
                     whole)]
           ELSE [st EXCEPT !.o = Append(st.o,
                     OtherChange(pth.item_id, JStr(ev.path), ev.old_value, NA))]
      [] OTHER ->
           [st EXCEPT !.o = Append(st.o,
               OtherChange(pth.item_id,
                           IF ~IsNone(pth.field) /\ pth.field.s # "" THEN pth.field ELSE JStr(ev.path),
                           ev.old_value, ev.new_value))]

\* json2 for an entry that reports an addition, json1 for the others: the
\* snapshot the value of the entry is read back from
SnapshotOf(ev, json1, json2) ==
    IF ev.kind \in {"dictionary_item_added", "iterable_item_added"} THEN json2 ELSE json1

ClassifyPath(st, ev, pth, json) ==
    ClassifyLooked(st, ev, pth,
                   _get_value_from_original_json(json, pth.item_id, JNull),
                   _get_value_from_original_json(json, pth.item_id, pth.field))

ClassifyEvent(st, ev, json1, json2) ==
    ClassifyPath(st, ev, _extract_path_components(ev.path), SnapshotOf(ev, json1, json2))

RECURSIVE ClassifyAll(_, _, _, _)
ClassifyAll(st, events, json1, json2) ==
    IF events = <<>> \/ st.raised THEN st
    ELSE ClassifyAll(ClassifyEvent(st, Head(events), json1, json2), Tail(events), json1, json2)

\* the consolidation loop: one output entry per entry of grouped_item_changes
Consolidate(e) ==
    CASE e.status = "added" ->
           <<EntityChange(e.item_id, "added",
                 IF ~IsNone(e.full_item_curr)
                 THEN <<FieldChange(JNull, NA, e.full_item_curr)>> ELSE <<>>)>>
      [] e.status = "removed" ->
           <<EntityChange(e.item_id, "removed",
                 IF ~IsNone(e.full_item_ref)
                 THEN <<FieldChange(JNull, e.full_item_ref, NA)>> ELSE <<>>)>>
      [] OTHER ->
           IF e.changes # <<>> THEN <<EntityChange(e.item_id, "changed", e.changes)>> ELSE <<>>

\* final_formatted_output: the consolidated entries, then the other changes
Formatted(st) == ConcatAll([i \in 1..Len(st.g) |-> Consolidate(st.g[i])]) \o st.o

OthersFirst(st) == st.o \o ConcatAll([i \in 1..Len(st.g) |-> Consolidate(st.g[i])])

\* a slip: the other changes put in front of the consolidated entries
FormatDiffOthersFirst(events, json1, json2) ==
    OthersFirst(ClassifyAll(NothingClassified, events, json1, json2))

\* the loop over diff_output and the consolidation: final_formatted_output
FormatDiff(events, json1, json2) ==
    Formatted(ClassifyAll(NothingClassified, events, json1, json2))

\* the loop over diff_output ends in a ValueError
FormatRaises(events, json1, json2) ==
    ClassifyAll(NothingClassified, events, json1, json2).raised

\* compare_differences: {"res": [...], "dif": diff_output}; an exception of
\* DeepDiff is caught, one of the loop over diff_output is not
FormatReport(st, events) ==
    IF st.raised THEN [res |-> <<>>, dif |-> events, raised |-> TRUE]
    ELSE [res |-> Formatted(st), dif |-> events, raised |-> FALSE]

CompareReport(diff_output, json1, json2) ==
    IF diff_output.raised THEN [res |-> <<>>, dif |-> <<>>, raised |-> FALSE]
    ELSE FormatReport(ClassifyAll(NothingClassified, diff_output.events, json1, json2),
                      diff_output.events)

compare_differences(json1, json2, group_by_key_name) ==
    IF ~(IsDict(json1) \/ IsList(json1)) \/ ~(IsDict(json2) \/ IsList(json2))
    THEN [res |-> <<>>, dif |-> <<>>, raised |-> FALSE]
    ELSE CompareReport(DeepDiff(json1, json2, group_by_key_name), json1, json2)

\* _summarize_diff_results with has_diffs taken from the relevant counts only
SummarizeWithoutOtherInHasDiffs(formatted_diff_res, raw_deepdiff_output) ==
    LET relevant == SelectSeq(formatted_diff_res,
                              LAMBDA d : d.status \in {"changed", "added", "removed"})
        other    == SelectSeq(formatted_diff_res,
                              LAMBDA d : d.status \notin {"changed", "added", "removed"})
        count(st) == Len(SelectSeq(formatted_diff_res, LAMBDA d : d.status = st))
    IN [relevant_changes |-> relevant,
        other_changes |-> other,
        raw_deepdiff_output |-> raw_deepdiff_output,
        summary_counts |-> [changed |-> count("changed"), added |-> count("added"),
                            removed |-> count("removed"), other |-> Len(other)],
        has_diffs |-> count("changed") + count("added") + count("removed") > 0]

\* _summarize_diff_results
_summarize_diff_results(formatted_diff_res, raw_deepdiff_output) ==
    LET relevant == SelectSeq(formatted_diff_res,
                              LAMBDA d : d.status \in {"changed", "added", "removed"})
        other    == SelectSeq(formatted_diff_res,
                              LAMBDA d : d.status \notin {"changed", "added", "removed"})
        count(st) == Len(SelectSeq(formatted_diff_res, LAMBDA d : d.status = st))
    IN [relevant_changes |-> relevant,
        other_changes |-> other,
        raw_deepdiff_output |-> raw_deepdiff_output,
        summary_counts |-> [changed |-> count("changed"), added |-> count("added"),
                            removed |-> count("removed"), other |-> Len(other)],
        has_diffs |-> count("changed") + count("added") + count("removed") + Len(other) > 0]

\* the summary of what compare_differences returned; its ValueError passes
\* through
Summarized(formatted) ==
    IF formatted.raised THEN ValueErrorRaised
    ELSE _summarize_diff_results(formatted.res, formatted.dif)

\* _handle_deepdiff_comparison
_handle_deepdiff_comparison(base, current_data, group_by) ==
    Summarized(compare_differences(base, current_data, group_by))

\* the call raises instead of returning: compare_differences let the
\* ValueError of a look-up through
DeepdiffRaises(base, current_data, group_by) ==
    compare_differences(base, current_data, group_by).raised

-----------------------------------------------------------------------------
(* The flat engine                                                         *)

\* The dict _transform_list_to_dict_by_key builds is keyed by the rows' key
\* values themselves (int or str): a sequence of [k |-> key, v |-> row] in
\* insertion order, at most one entry per key.
PDict(rows) == [t |-> "pdict", s |-> "", m |-> <<>>, l |-> rows]

IsPDict(v) == v.t = "pdict"

\* `transformed[item_id] = item`
PDictPut(rows, k, v) ==
    IF \E i \in 1..Len(rows) : rows[i].k = k
    THEN [i \in 1..Len(rows) |-> IF rows[i].k = k THEN [k |-> k, v |-> v] ELSE rows[i]]
    ELSE Append(rows, [k |-> k, v |-> v])

\* _transform_list_to_dict_by_key
RECURSIVE TransformRows(_, _, _)
TransformRows(transformed, data_list, key) ==
    IF data_list = <<>> THEN transformed
    ELSE LET item == Head(data_list)
             item_id == DictGet(item.m, key)
         IN IF IsNone(item_id)
            THEN TransformRows(transformed, Tail(data_list), key)
            ELSE TransformRows(PDictPut(transformed, item_id, item), Tail(data_list), key)

_transform_list_to_dict_by_key(data_list, key) == PDict(TransformRows(<<>>, data_list.l, key))

\* OrderedDict(items): a later pair replaces an earlier one of the same key
RECURSIVE DictOfItems(_)
DictOfItems(items) ==
    IF items = <<>> THEN <<>>
    ELSE LET rest == DictOfItems(SubSeq(items, 1, Len(items) - 1))
             last == items[Len(items)]
         IN DictPut(rest, last[1], last[2])

\* OrderedDict(items).items(): each key once, at the place of its first
\* pair and with the value of its last
ItemsOnce(items) ==
    LET firsts == SelectSeq([i \in 1..Len(items) |-> i],
                            LAMBDA i : \A j \in 1..(i - 1) : items[j][1] # items[i][1])
    IN [n \in 1..Len(firsts) |-> <<items[firsts[n]][1], DictOfItems(items)[items[firsts[n]][1]]>>]

\* the list `items` of flatten_json(data, parent_key): it is extended with
\* the items of the OrderedDict each recursive call returns; parent_key is
\* "" at the root, and below a transformed dict it is the row's key value
\* itself (int or str)
RECURSIVE FlattenItems(_, _)
FlattenItems(data, parent_key) ==
    LET child(key) == IF Truthy(parent_key)
                      THEN JStr(KeyText(parent_key) \o "." \o KeyText(key))
                      ELSE key
    IN
    IF IsDict(data)
    THEN LET keys == KeyOrder(data)
         IN ConcatAll([i \in 1..Len(keys) |->
                          ItemsOnce(FlattenItems(data.m[keys[i]], child(JStr(keys[i]))))])
    ELSE IF IsPDict(data)
    THEN ConcatAll([i \in 1..Len(data.l) |->
                       ItemsOnce(FlattenItems(data.l[i].v, child(data.l[i].k)))])
    ELSE IF IsList(data)
    THEN ConcatAll([i \in 1..Len(data.l) |->
                       ItemsOnce(FlattenItems(data.l[i],
                                    IF Truthy(parent_key)
                                    THEN JStr(KeyText(parent_key) \o "." \o IntToStr(i - 1))
                                    ELSE JStr(IntToStr(i - 1))))])
    ELSE <<<<KeyText(parent_key), data>>>>

flatten_json(data) == DictOfItems(FlattenItems(data, JStr("")))

FlatChange(key, status, ref, cur) ==
    [key |-> key, status |-> status, reference_value |-> ref, current_value |-> cur]

\* the status of a key whose two values differ
FlatStatus(ref_val, curr_val) ==
    IF IsNone(ref_val) THEN "added"
    ELSE IF IsNone(curr_val) THEN "removed"
    ELSE "changed"

\* the body of the loop over all_keys: no entry for equal values, else one
FlatEntry(flat_json1, flat_json2, key) ==
    LET ref_val == DictGet(flat_json1, key)
        curr_val == DictGet(flat_json2, key)
    IN IF ref_val = curr_val THEN <<>>
       ELSE <<FlatChange(key, FlatStatus(ref_val, curr_val), ref_val, curr_val)>>

\* flat_compare_differences_enhanced
flat_compare_differences_enhanced(json1, json2) ==
    IF ~(IsDict(json1) \/ IsPDict(json1) \/ IsList(json1))
       \/ ~(IsDict(json2) \/ IsPDict(json2) \/ IsList(json2))
    THEN [has_changes |-> FALSE, detailed_changes |-> <<>>]
    ELSE LET flat_json1 == flatten_json(json1)
             flat_json2 == flatten_json(json2)
             all_keys == SortedStrs(DOMAIN flat_json1 \cup DOMAIN flat_json2)
             detailed_changes ==
                 ConcatAll([i \in 1..Len(all_keys) |->
                               FlatEntry(flat_json1, flat_json2, all_keys[i])])
         IN [has_changes |-> detailed_changes # <<>>,
             detailed_changes |-> detailed_changes]

\* the longest id of top_level_item_ids that is full_key or a prefix of it
\* followed by '.', "" when there is none
BestMatchId(full_key, top_level_item_ids) ==
    LET matches == {id \in top_level_item_ids :
                       /\ StartsWith(full_key, id)
                       /\ (Len(full_key) = Len(id) \/ CharAt(full_key, Len(id) + 1) = ".")}
    IN IF matches = {} THEN ""
       ELSE CHOOSE id \in matches : \A other \in matches : Len(other) <= Len(id)

GlobalConfiguration == "Global Configuration"

\* item id and field a flat key change is grouped under
GroupingOf(full_key, was_list_transformed, top_level_item_ids) ==
    IF was_list_transformed /\ top_level_item_ids # {}
    THEN LET best_match_id == BestMatchId(full_key, top_level_item_ids)
         IN IF best_match_id # ""
            THEN [item_id |-> best_match_id,
                  field |-> IF Len(full_key) > Len(best_match_id) + 1
                               /\ CharAt(full_key, Len(best_match_id) + 1) = "."
                            THEN JStr(SubSeq(full_key, Len(best_match_id) + 2, Len(full_key)))
                            ELSE IF Len(full_key) = Len(best_match_id) THEN JNull
                            ELSE JStr(full_key)]
            ELSE [item_id |-> GlobalConfiguration, field |-> JStr(full_key)]
    ELSE [item_id |-> GlobalConfiguration, field |-> JStr(full_key)]

\* the status of the key change processed last
MergeStatusLastWins(current_status, status) == status

\* overall item status after one more key change: removed > added > changed
MergeStatus(current_status, status) ==
    IF status = "removed" THEN "removed"
    ELSE IF status = "added" /\ current_status # "removed" THEN "added"
    ELSE IF status = "changed" /\ current_status \notin {"removed", "added"} THEN "changed"
    ELSE current_status

\* the grouping loop of _summarize_flat_results
RECURSIVE GroupFlatChanges(_, _, _, _)
GroupFlatChanges(grouped, detailed_changes, was_list_transformed, top_level_item_ids) ==
    IF detailed_changes = <<>> THEN grouped
    ELSE LET c == Head(detailed_changes)
             at == GroupingOf(c.key, was_list_transformed, top_level_item_ids)
             id == JStr(at.item_id)
             change == FieldChange(at.field, c.reference_value, c.current_value)
             next == IF \E i \in 1..Len(grouped) : grouped[i].item_id = id
                     THEN [i \in 1..Len(grouped) |->
                              IF grouped[i].item_id = id
                              THEN EntityChange(id, MergeStatus(grouped[i].status, c.status),
                                                Append(grouped[i].changes, change))
                              ELSE grouped[i]]
                     ELSE Append(grouped, EntityChange(id, c.status, <<change>>))
         IN GroupFlatChanges(next, Tail(detailed_changes), was_list_transformed, top_level_item_ids)

\* processed_data.get(item_id) with item_id a str
ProcessedGet(processed, item_id) ==
    IF IsPDict(processed)
    THEN IF \E i \in 1..Len(processed.l) : processed.l[i].k = JStr(item_id)
         THEN (processed.l[CHOOSE i \in 1..Len(processed.l) : processed.l[i].k = JStr(item_id)]).v
         ELSE JNull
    ELSE DictGet(processed.m, item_id)

\* the post-processing loop: whole objects for added / removed items
WholeItem(e, processed_baseline_data, processed_current_data) ==
    IF e.status = "added"
    THEN LET full == ProcessedGet(processed_current_data, e.item_id.s)
         IN IF ~IsNone(full)
            THEN [e EXCEPT !.changes = <<FieldChange(JNull, NA, full)>>] ELSE e
    ELSE IF e.status = "removed"
    THEN LET full == ProcessedGet(processed_baseline_data, e.item_id.s)
         IN IF ~IsNone(full)
            THEN [e EXCEPT !.changes = <<FieldChange(JNull, full, NA)>>] ELSE e
    ELSE e

\* _summarize_flat_results
_summarize_flat_results(flat_comparison_output, was_list_transformed, top_level_item_ids, processed_baseline_data, processed_current_data) ==
    LET grouped == GroupFlatChanges(<<>>, flat_comparison_output.detailed_changes,
                                    was_list_transformed, top_level_item_ids)
        relevant == IF was_list_transformed
                    THEN [i \in 1..Len(grouped) |->
                             WholeItem(grouped[i], processed_baseline_data, processed_current_data)]
                    ELSE grouped
        count(st) == Len(SelectSeq(relevant, LAMBDA d : d.status = st))
    IN [relevant_changes |-> relevant,
        other_changes |-> <<>>,
        raw_deepdiff_output |-> <<>>,
        summary_counts |-> [changed |-> count("changed"), added |-> count("added"),
                            removed |-> count("removed"), other |-> 0],
        has_diffs |-> flat_comparison_output.has_changes]

\* `isinstance(x, list) and all(isinstance(i, dict) for i in x)`
IsListOfDicts(v) == IsList(v) /\ \A i \in 1..Len(v.l) : IsDict(v.l[i])

\* the processed snapshot of _handle_flat_comparison
Processed(data, group_by) ==
    IF group_by # "" /\ IsListOfDicts(data)
    THEN _transform_list_to_dict_by_key(data, group_by)
    ELSE data

TopLevelIds(processed) ==
    IF IsPDict(processed) THEN {KeyText(processed.l[i].k) : i \in 1..Len(processed.l)} ELSE {}

\* _handle_flat_comparison
_handle_flat_comparison(base, current_data, group_by) ==
    LET processed_baseline == Processed(base, group_by)
        processed_current == Processed(current_data, group_by)
        was_transformed == IsPDict(processed_baseline) \/ IsPDict(processed_current)
        top_level_ids == TopLevelIds(processed_baseline) \cup TopLevelIds(processed_current)
        flat_output == flat_compare_differences_enhanced(processed_baseline, processed_current)
    IN _summarize_flat_results(flat_output, was_transformed, top_level_ids,
                               processed_baseline, processed_current)

\* the call raises instead of returning: a row's key value is unhashable, or
\* the post-processing calls .get on a snapshot that is a list
FlatRaises(base, current_data, group_by) ==
    LET unhashable(v) == /\ group_by # "" /\ IsListOfDicts(v)
                         /\ \E i \in 1..Len(v.l) :
                                DictGet(v.l[i].m, group_by).t \in {"map", "list"}
        pb == Processed(base, group_by)
        pcur == Processed(current_data, group_by)
    IN \/ unhashable(base)
       \/ unhashable(current_data)
       \/ /\ IsPDict(pb) \/ IsPDict(pcur)
          /\ LET rel == GroupFlatChanges(<<>>,
                            flat_compare_differences_enhanced(pb, pcur).detailed_changes,
                            TRUE, TopLevelIds(pb) \cup TopLevelIds(pcur))
             IN \E i \in 1..Len(rel) :
                    \/ rel[i].status = "added" /\ IsList(pcur)
                    \/ rel[i].status = "removed" /\ IsList(pb)

-----------------------------------------------------------------------------
(* Snapshots of the bounded model                                          *)

MaxLen == 2       \* longest sequence of a snapshot
MaxIntKey == 1    \* largest integer grouping-key value

GroupKey == "id"

KeyValues == {JInt(k) : k \in 1..MaxIntKey} \cup {JStr("a")}

FieldValues == {JStr("x"), JStr("y"), JNull}

\* the elements of a grouping-keyed sequence: {"id": k, "val": v}
Elements == {JMap([f \in {"id", "val"} |-> IF f = "id" THEN k ELSE v]) :
                k \in KeyValues, v \in FieldValues}

\* one element with two fields besides the grouping key:
\* {"id": 1, "val": v, "tag": w}
TwoFieldSnapshots ==
    {JList(<<JMapOrd([f \in {"id", "val", "tag"} |->
                         IF f = "id" THEN JInt(1) ELSE IF f = "val" THEN v ELSE w],
                     <<"id", "val", "tag">>)>>) : v \in FieldValues, w \in {JStr("x"), JStr("y")}}

SeqsUpTo(S, n) == UNION {[1..len -> S] : len \in 0..n}

DistinctKeys(q) == \A i, j \in 1..Len(q) : q[i].m["id"] = q[j].m["id"] => i = j

\* sequences of elements with distinct grouping-key values
ListSnapshots == {JList(q) : q \in {r \in SeqsUpTo(Elements, MaxLen) : DistinctKeys(r)}}

\* sequences in which two elements carry the same grouping-key value
DuplicateKeySnapshots ==
    {JList(q) : q \in {r \in [1..2 -> Elements] : r[1].m["id"] = r[2].m["id"]}}

\* a sequence whose element carries a sequence as grouping-key value: a
\* value that cannot be the key of a dict
UnhashableKeySnapshots ==
    {JList(<<JMap([f \in {"id", "val"} |-> IF f = "id" THEN JList(<<JInt(1)>>) ELSE JStr("x")])>>)}

\* the values of a root map: scalars, null, a map, a sequence, an empty map,
\* an empty sequence
MapValues == {JInt(1), JStr("x"), JNull, JMap([k \in {"j", "k"} |-> JInt(1)]),
              JList(<<JInt(1)>>), JMap(<<>>), JList(<<>>)}

MapKeys == {"a", "0"}

MapSnapshots == {JMap(f) : f \in UNION {[D -> MapValues] : D \in SUBSET MapKeys}}

\* sequences of scalars, compared with maps and with themselves
ScalarListSnapshots == {JList(<<>>), JList(<<JInt(1)>>), JList(<<JNull>>)}

\* {"a": inner} with inner = {"b": items, extra: value} when extra is given
UnderA(items, extra, value) ==
    JMap([k \in {"a"} |->
            IF extra = "" THEN JMap([j \in {"b"} |-> JList(items)])
            ELSE JMapOrd([j \in {"b", extra} |-> IF j = "b" THEN JList(items) ELSE value],
                         <<"b", extra>>)])

\* pairs whose changed key holds a dot, so that the look-up of its field
\* path walks into the sequence next to it: with a part that is no integer,
\* with a negative index, and a grouped pair whose key value is taken for a
\* position of the sequence
LookupInputs ==
    {<<UnderA(<<JInt(1)>>, "", JNull), UnderA(<<JInt(1)>>, "b.c", JInt(1)), "">>,
     <<UnderA(<<JInt(1)>>, "b.c", JInt(1)), UnderA(<<JInt(1)>>, "", JNull), "">>,
     <<UnderA(<<JInt(1), JInt(2)>>, "", JNull), UnderA(<<JInt(1), JInt(2)>>, "b.-1", JInt(5)), "">>,
     <<JList(<<JMap([f \in {"id", "val"} |-> IF f = "id" THEN JInt(1) ELSE JMap(<<>>)]),
               JMap([f \in {"id", "val"} |-> IF f = "id" THEN JStr("a") ELSE JList(<<JInt(1)>>)])>>),
       JList(<<JMap([f \in {"id", "val"} |-> IF f = "id" THEN JInt(1)
                                              ELSE JMap([x \in {"x"} |-> JInt(1)])]),
               JMap([f \in {"id", "val"} |-> IF f = "id" THEN JStr("a") ELSE JList(<<JInt(1)>>)])>>),
       GroupKey>>}

\* {"a.b": 1, "a": {"b": 2}} written with its keys in the order `keys`
Colliding(keys) ==
    JMapOrd([k \in {"a.b", "a"} |-> IF k = "a.b" THEN JInt(1) ELSE JMap([j \in {"b"} |-> JInt(2)])],
            keys)

\* {"b": 1, "a": 2} written with its keys in the order `keys`
TwoKeys(keys) == JMapOrd([k \in {"a", "b"} |-> IF k = "b" THEN JInt(1) ELSE JInt(2)], keys)

\* pairs that depend on the order the keys of a dict were written in: two
\* keys that flatten to the same path, and one object written both ways
KeyOrderInputs ==
    {<<Colliding(<<"a.b", "a">>), JMap([k \in {"a.b"} |-> JInt(2)]), "">>,
     <<Colliding(<<"a", "a.b">>), JMap([k \in {"a.b"} |-> JInt(2)]), "">>,
     <<TwoKeys(<<"b", "a">>), TwoKeys(<<"a", "b">>), "">>,
     <<JList(<<TwoKeys(<<"b", "a">>)>>), JList(<<TwoKeys(<<"a", "b">>)>>), "">>,
     <<JMap(<<>>), TwoKeys(<<"b", "a">>), "">>,
     <<TwoKeys(<<"b", "a">>), JMap(<<>>), "">>}

EmptySummary ==
    [relevant_changes |-> <<>>, other_changes |-> <<>>, raw_deepdiff_output |-> <<>>,
     summary_counts |-> [changed |-> 0, added |-> 0, removed |-> 0, other |-> 0],
     has_diffs |-> FALSE]

\* the (baseline, current, grouping key) inputs of the engine-level runs:
\* grouping-keyed sequences, elements with two fields, root maps, a root sequence against a root map,
\* every snapshot against itself, and the pairs that walk a field path or
\* depend on the order of the keys
EngineInputs ==
       {<<b, c, GroupKey>> : b \in ListSnapshots, c \in ListSnapshots}
  \cup {<<b, c, GroupKey>> : b \in TwoFieldSnapshots, c \in TwoFieldSnapshots}
  \cup {<<b, c, g>> : b \in MapSnapshots, c \in MapSnapshots, g \in {""}}
  \cup {<<b, c, g>> : b \in ScalarListSnapshots, c \in MapSnapshots, g \in {""}}
  \cup {<<x, x, g>> : x \in ListSnapshots \cup DuplicateKeySnapshots
                                \cup UnhashableKeySnapshots
                                \cup MapSnapshots \cup ScalarListSnapshots,
                      g \in {"", GroupKey}}
  \cup LookupInputs
  \cup KeyOrderInputs

\* the scopes core_data_operation has a compare function for, and a scope
\* for which it has none and USE_CASES no operation
CompareScope == "organization_level"

NetworkScope == "network_level"

DeviceScope == "device_level"

CompareScopes == {CompareScope, NetworkScope, DeviceScope}

Scopes == CompareScopes \cup {"site_level"}

\* what load_from_json does with a baseline file: it returns the value the
\* file holds, or it raises again what open and json.load raised
LoadedFile(d) == [load |-> "ok", data |-> d]

FailingFile(exception) == [load |-> exception, data |-> JNull]

MissingFile == FailingFile("FileNotFoundError")

Loads(file) == file.load = "ok"

\* the keyword arguments network_tags, device_models, device_tags and
\* product_types of core_data_operation when nothing is selected: [] and
\* None are <<>>
NoFilters ==
    [network_tags |-> <<>>, device_models |-> <<>>, device_tags |-> <<>>,
     product_types |-> <<>>]

\* no store and no comparison run is under way
CoreIdle ==
    /\ impl = "module"
    /\ task = "compare"
    /\ scope = CompareScope
    /\ store_env = [has_fetch |-> TRUE, fetch |-> "data", save |-> "ok"]
    /\ saved = <<>>

UiIdle ==
    /\ operations = <<>>
    /\ operation_selections = <<>>
    /\ op_idx = 0
    /\ run_results = <<>>

\* no function is applied on its own
FnIdle ==
    /\ transform_in = <<>>
    /\ transform_out = <<>>
    /\ grouping_in = <<>>
    /\ grouping_out = <<>>
    /\ device_in = <<>>
    /\ device_out = <<>>
    /\ path_in = ""
    /\ path_out = <<>>

OrchIdle ==
    /\ entities = <<>>
    /\ idx = 0
    /\ results = <<>>
    /\ fetch_log = <<>>
    /\ opc = "idle"
    /\ returned = [t |-> "list", items |-> <<>>, error |-> ""]
    /\ org_ids = <<>>
    /\ baseline_file = MissingFile
    /\ listing = "ok"
    /\ filters = NoFilters

InitEngine ==
    /\ \E in \in EngineInputs :
          /\ baseline = in[1]
          /\ current = in[2]
          /\ group_by_key = in[3]
    /\ method = ""
    /\ summary = EmptySummary
    /\ diff_events = <<>>
    /\ flat_ref = <<>>
    /\ flat_cur = <<>>
    /\ flat_out = [has_changes |-> FALSE, detailed_changes |-> <<>>]
    /\ pc = "ready"
    /\ OrchIdle
    /\ CoreIdle
    /\ UiIdle
    /\ FnIdle

\* _COMPARISON_METHODS["deepdiff"]
DeepdiffEnds(formatted) ==
    /\ diff_events' = formatted.dif
    /\ IF formatted.raised
       THEN /\ pc' = "raised"
            /\ UNCHANGED summary
       ELSE /\ pc' = "done"
            /\ summary' = Summarized(formatted)

RunDeepdiff ==
    /\ pc = "ready"
    /\ method' = "deepdiff"
    /\ DeepdiffEnds(compare_differences(baseline, current, group_by_key))
    /\ UNCHANGED <<baseline, current, group_by_key, flat_ref, flat_cur, flat_out>>
    /\ UNCHANGED <<orchVars, coreVars, uiVars, fnVars>>

\* _COMPARISON_METHODS["flat"]
RunFlat ==
    /\ pc = "ready"
    /\ method' = "flat"
    /\ IF FlatRaises(baseline, current, group_by_key)
       THEN /\ pc' = "raised"
            /\ UNCHANGED <<summary, flat_out>>
       ELSE /\ pc' = "done"
            /\ summary' = _handle_flat_comparison(baseline, current, group_by_key)
            /\ flat_out' = flat_compare_differences_enhanced(
                               Processed(baseline, group_by_key),
                               Processed(current, group_by_key))
    /\ UNCHANGED <<baseline, current, group_by_key, diff_events, flat_ref, flat_cur>>
    /\ UNCHANGED <<orchVars, coreVars, uiVars, fnVars>>

\* flatten_json applied to both snapshots as they are
Flatten ==
    /\ pc = "ready"
    /\ flat_ref' = flatten_json(baseline)
    /\ flat_cur' = flatten_json(current)
    /\ pc' = "flattened"
    /\ UNCHANGED <<baseline, current, group_by_key, method, summary, diff_events, flat_out>>
    /\ UNCHANGED <<orchVars, coreVars, uiVars, fnVars>>

NextEngine ==
    \/ RunDeepdiff
    \/ RunFlat
    \/ Flatten

SpecEngine == InitEngine /\ [][NextEngine]_vars

-----------------------------------------------------------------------------
(* core_data_operation(scope = "organization_level", task = "compare") and *)
(* _compare_level_general                                                  *)

MaxEntities == 2   \* most entities the entity source lists

\* what core_data_operation returns: the `results` list of the pass, or the
\* dict {"error": message}
ReturnList(items) == [t |-> "list", items |-> items, error |-> ""]

\* a slip: the exception is swallowed and an empty list returned
ReturnErrorAsEmptyList(msg) == [t |-> "list", items |-> <<>>, error |-> ""]

\* {"error": msg}
ReturnError(msg)  == [t |-> "dict", items |-> <<>>, error |-> msg]

OrgIds == {JNull, JStr("o1"), JStr("o2")}

\* what the call of the dashboard does for an entity: it raises
\* meraki.APIError, raises another exception, answers None or answers a value
ApiError == [kind |-> "raise", data |-> JNull]

OtherError == [kind |-> "error", data |-> JNull]

NoAnswer == [kind |-> "none", data |-> JNull]

Answer(d) == [kind |-> "data", data |-> d]

\* {"name": "n", "a": 2}: settings that carry the name of their entity
NamedSettings ==
    JMapOrd([k \in {"name", "a"} |-> IF k = "a" THEN JInt(2) ELSE JStr("n")], <<"name", "a">>)

DashboardAnswers ==
    {ApiError, OtherError, NoAnswer,
     Answer(JMap([k \in {"a"} |-> JInt(1)])), Answer(NamedSettings),
     Answer(UnderA(<<JInt(1)>>, "", JNull))}

\* d after d.pop(k, None) for every k of keys
PopKeys(v, keys) ==
    JMapOrd([k \in DOMAIN v.m \ keys |-> v.m[k]],
            SelectSeq(KeyOrder(v), LAMBDA k : k \notin keys))

\* fetch_organization_settings(org_id=None): the organization fetched is
\* org_id or, when org_id is None, the selected organization
\* core.get_organization()[0]; {} when that is empty or None; else the
\* answer of getOrganization without "id", "name" and "url"; an answer that
\* has no such pop (None, a number, a string, a sequence) raises
\* AttributeError or TypeError
fetch_organization_settings(org_id, selected, answer) ==
    LET org_id_to_fetch == IF ~IsNone(org_id) THEN org_id ELSE selected
    IN IF ~Truthy(org_id_to_fetch) THEN Answer(JMap(<<>>))
       ELSE IF answer.kind \in {"raise", "error"} THEN answer
       ELSE IF answer.kind = "none" \/ ~IsDict(answer.data) THEN OtherError
       ELSE Answer(PopKeys(answer.data, {"id", "name", "url"}))

\* fetch_network_settings(net_id): the answer of getNetworkSettings as it is
fetch_network_settings(net_id, answer) == answer

\* fetch_switch_switchport(dev_id): the answer of getDeviceSwitchPorts as it is
fetch_switch_switchport(dev_id, answer) == answer

\* fetch_function(entity_id) of the operation the pass of a scope compares:
\* organization_settings, network_settings, switchport_on_switch; the pass
\* hands on the id of the entity, which is not None, so that the selected
\* organization is not asked for
FetchFunction(level, entity) ==
    IF level = NetworkScope THEN fetch_network_settings(entity.id, entity.answer)
    ELSE IF level = DeviceScope THEN fetch_switch_switchport(entity.id, entity.answer)
    ELSE fetch_organization_settings(entity.id, JNull, entity.answer)

\* found_op.get("group_by") of that operation, "" for None: only
\* switchport_on_switch names a grouping key
OperationGroupBy(level) == IF level = DeviceScope THEN "portId" ELSE ""

\* what get_entities_func(True) does: it returns the list of entities,
\* raises meraki.APIError, or raises another exception (get_networks and
\* get_devices raise ValueError when no organization is selected)
ListingOutcomes == {"ok", "raise", "error"}

\* an entity record as get_entities_func lists it, with what the dashboard
\* will do when its snapshot is fetched; id is the value under the id key of
\* the scope, "id" of an organization or network, "serial" of a device
\* the listed entity of an id: the first one carries the tag t1 and is of
\* the model MS, the others carry no tag and are of the model MX; the keys
\* tags, model and productType are those of get_devices, tags also one of
\* get_networks
Listed(id, answer) ==
    [id |-> id, name |-> "n", answer |-> answer,
     tags |-> IF id = JStr("o1") THEN <<"t1">> ELSE <<>>,
     model |-> IF id = JStr("o1") THEN "MS" ELSE "MX",
     productType |-> "switch"]

EntityRecords == {Listed(i, a) : i \in OrgIds, a \in DashboardAnswers}

\* what a pass of a scope selects: compare_organization_level is handed
\* none of the four, compare_network_level the network tags,
\* compare_device_level all four, of which the passes of the model select
\* the device models or the device tags
PassFilters(level) ==
    IF level = NetworkScope
    THEN {NoFilters, [NoFilters EXCEPT !.network_tags = <<"t1">>]}
    ELSE IF level = DeviceScope
    THEN {NoFilters, [NoFilters EXCEPT !.device_models = <<"MS">>],
          [NoFilters EXCEPT !.device_tags = <<"t1">>]}
    ELSE {NoFilters}

\* the entity source gives the i-th entity the display name "n<i>"
Named(q) == [i \in 1..Len(q) |-> [q[i] EXCEPT !.name = "n" \o IntToStr(i)]]

\* the exceptions load_from_json raises again: FileNotFoundError,
\* json.JSONDecodeError, and any other (a file that may not be read)
LoadFailures == {"FileNotFoundError", "JSONDecodeError", "PermissionError"}

BaselineFiles == {FailingFile(x) : x \in LoadFailures}
            \cup {LoadedFile(JMap(<<>>)),
                  LoadedFile(JMap([k \in {"a"} |-> JInt(1)])),
                  LoadedFile(UnderA(<<JInt(1)>>, "b.c", JInt(1)))}

MethodNames == {"deepdiff", "flat", "xml"}

OrgIdFilters == {<<>>, <<JStr("o1")>>}

\* _COMPARISON_METHODS of compare_functions
_COMPARISON_METHODS == {"deepdiff", "flat"}

\* self._COMPARISON_METHODS of ProjectLogic
ProjectLogic_COMPARISON_METHODS == {"deepdiff"}

\* the module-level functions and the class the UI calls
Implementations == {"module", "class"}

\* the engines registered with an implementation
Registry(implementation) ==
    IF implementation = "class" THEN ProjectLogic_COMPARISON_METHODS ELSE _COMPARISON_METHODS

\* _organization_filter
_organization_filter(entity, filter_args) ==
    ~(filter_args # <<>> /\ entity.id \notin Range(filter_args))

\* entity.get("tags", []) and entity.get("productTypes", [])
TagsOf(entity) == IF "tags" \in DOMAIN entity THEN Range(entity.tags) ELSE {}

ProductTypesOf(entity) ==
    IF "productTypes" \in DOMAIN entity THEN Range(entity.productTypes) ELSE {}

\* _network_filter: the network tags selected, <<>> for none, and the
\* product type of the operation, "" for none
_network_filter(entity, network_tags_filter, product_type) ==
    /\ network_tags_filter = <<>> \/ Range(network_tags_filter) \cap TagsOf(entity) # {}
    /\ product_type = "" \/ product_type \in ProductTypesOf(entity)

\* entity.get(key, default) on a record of the entity source
EntityGet(entity, key, default) == IF key \in DOMAIN entity THEN entity[key] ELSE default

\* _device_filter: entity.get("model") and entity.get("networkId") are None
\* for a record without the key, and None is in no allow-list and is no key
\* of network_id_to_tags
_device_filter(entity, filter_args) ==
    LET tags_filter == EntityGet(filter_args, "device_tags", <<>>)
        models_filter == EntityGet(filter_args, "device_models", <<>>)
        product_type_filter == EntityGet(filter_args, "product_types", <<>>)
        network_tags_filter == EntityGet(filter_args, "network_tags", <<>>)
        network_id_to_tags == EntityGet(filter_args, "network_id_to_tags", <<>>)
        network_tags == IF "networkId" \in DOMAIN entity
                           /\ entity.networkId \in DOMAIN network_id_to_tags
                        THEN network_id_to_tags[entity.networkId] ELSE <<>>
    IN IF tags_filter # <<>>
          /\ Range(tags_filter) \cap Range(EntityGet(entity, "device_tags", <<>>)) = {}
       THEN FALSE
       ELSE IF models_filter # <<>>
               /\ ("model" \notin DOMAIN entity \/ entity.model \notin Range(models_filter))
       THEN FALSE
       ELSE IF product_type_filter # <<>>
               /\ Range(product_type_filter) \cap Range(EntityGet(entity, "productTypes", <<>>)) = {}
       THEN FALSE
       ELSE IF network_tags_filter # <<>> /\ Range(network_tags_filter) \cap Range(network_tags) = {}
       THEN FALSE
       ELSE TRUE

\* compare_func(baseline, current_data, group_by_key[, entity_name])
CompareFunc(name, base, current_data, group_by) ==
    IF name = "flat" THEN _handle_flat_comparison(base, current_data, group_by)
    ELSE _handle_deepdiff_comparison(base, current_data, group_by)

\* compare_func raises instead of returning a summary
CompareRaises(name, base, current_data, group_by) ==
    IF name = "flat" THEN FlatRaises(base, current_data, group_by)
    ELSE DeepdiffRaises(base, current_data, group_by)

\* the entities, filter, baseline file and method of a compare pass
ComparePassInputs ==
    /\ \E q \in SeqsUpTo(EntityRecords, MaxEntities) : entities = Named(q)
    /\ listing \in ListingOutcomes
    /\ org_ids \in OrgIdFilters
    /\ scope \in {NetworkScope, DeviceScope} => org_ids = <<>>
    /\ filters \in PassFilters(scope)
    /\ baseline_file \in BaselineFiles
    /\ method \in MethodNames
    /\ group_by_key = OperationGroupBy(scope)
    /\ baseline = JNull
    /\ current = JNull
    /\ summary = EmptySummary
    /\ diff_events = <<>>
    /\ flat_ref = <<>>
    /\ flat_cur = <<>>
    /\ flat_out = [has_changes |-> FALSE, detailed_changes |-> <<>>]
    /\ pc = "orchestrated"
    /\ idx = 0
    /\ results = <<>>
    /\ fetch_log = <<>>
    /\ opc = "called"
    /\ returned = ReturnList(<<>>)
    /\ impl \in Implementations
    /\ store_env = [has_fetch |-> TRUE, fetch |-> "data", save |-> "ok"]
    /\ saved = <<>>
    /\ UiIdle
    /\ FnIdle

InitOrch ==
    /\ scope \in CompareScopes
    /\ ComparePassInputs
    /\ task = "compare"

\* core_data_operation took the compare branch of a scope it knows
CompareEntered == opc = "called" /\ task = "compare" /\ scope \in CompareScopes

OrchUnchanged ==
    UNCHANGED <<entities, org_ids, baseline_file, listing, filters, method, group_by_key,
                diff_events, flat_ref, flat_cur, flat_out, pc,
                coreVars, uiVars, fnVars>>

\* load_from_json raises FileNotFoundError; core_data_operation catches it
BaselineMissing ==
    /\ CompareEntered
    /\ baseline_file.load = "FileNotFoundError"
    /\ returned' = ReturnError("File not found during compare")
    /\ opc' = "returned"
    /\ OrchUnchanged
    /\ UNCHANGED <<baseline, current, summary, idx, results, fetch_log>>

\* load_from_json raises json.JSONDecodeError or another exception;
\* core_data_operation catches it as Exception
BaselineUnreadable ==
    /\ CompareEntered
    /\ ~Loads(baseline_file)
    /\ baseline_file.load # "FileNotFoundError"
    /\ returned' = ReturnError("Unexpected Error during compare")
    /\ opc' = "returned"
    /\ OrchUnchanged
    /\ UNCHANGED <<baseline, current, summary, idx, results, fetch_log>>

\* `if not baseline: return []`
BaselineEmpty ==
    /\ CompareEntered
    /\ Loads(baseline_file)
    /\ ~Truthy(baseline_file.data)
    /\ baseline' = baseline_file.data
    /\ returned' = ReturnList(<<>>)
    /\ opc' = "returned"
    /\ OrchUnchanged
    /\ UNCHANGED <<current, summary, idx, results, fetch_log>>

\* `entities = get_entities_func(True)` raises: the baseline is loaded and
\* not empty, the method has not been looked up and nothing is fetched;
\* core_data_operation catches meraki.APIError, or any other exception
ListingRaises ==
    /\ CompareEntered
    /\ Loads(baseline_file)
    /\ Truthy(baseline_file.data)
    /\ listing # "ok"
    /\ baseline' = baseline_file.data
    /\ returned' = ReturnError(IF listing = "raise" THEN "Meraki API Error during compare"
                               ELSE "Unexpected Error during compare")
    /\ opc' = "returned"
    /\ OrchUnchanged
    /\ UNCHANGED <<current, summary, idx, results, fetch_log>>

\* the entities are listed; `if not compare_func: return []`
UnsupportedMethod ==
    /\ CompareEntered
    /\ Loads(baseline_file)
    /\ Truthy(baseline_file.data)
    /\ listing = "ok"
    /\ method \notin Registry(impl)
    /\ baseline' = baseline_file.data
    /\ returned' = ReturnList(<<>>)
    /\ opc' = "returned"
    /\ OrchUnchanged
    /\ UNCHANGED <<current, summary, idx, results, fetch_log>>

\* the baseline is loaded, the entities are listed and the method is known:
\* the loop over entities begins
StartLoop ==
    /\ CompareEntered
    /\ Loads(baseline_file)
    /\ Truthy(baseline_file.data)
    /\ listing = "ok"
    /\ method \in Registry(impl)
    /\ baseline' = baseline_file.data
    /\ idx' = 1
    /\ results' = <<>>
    /\ opc' = "loop"
    /\ OrchUnchanged
    /\ UNCHANGED <<current, summary, fetch_log, returned>>

InLoop == opc = "loop" /\ idx <= Len(entities)

\* `if entity_id is None: continue`
SkipNoId ==
    /\ InLoop
    /\ IsNone(entities[idx].id)
    /\ idx' = idx + 1
    /\ OrchUnchanged
    /\ UNCHANGED <<baseline, current, summary, results, fetch_log, opc, returned>>

\* entity_filter_func(entity, scope, operation_name, filter_args or {}) of
\* the pass: compare_network_level hands on the network tags, and
\* network_settings names no product type; compare_device_level hands on
\* the four allow-lists; compare_organization_level the organization ids
EntityFilter(entity) ==
    IF scope = NetworkScope THEN _network_filter(entity, filters.network_tags, "")
    ELSE IF scope = DeviceScope THEN _device_filter(entity, filters)
    ELSE _organization_filter(entity, org_ids)

\* `if entity_filter_func and not entity_filter_func(...): continue`
SkipFiltered ==
    /\ InLoop
    /\ ~IsNone(entities[idx].id)
    /\ ~EntityFilter(entities[idx])
    /\ idx' = idx + 1
    /\ OrchUnchanged
    /\ UNCHANGED <<baseline, current, summary, results, fetch_log, opc, returned>>

Eligible(e) == ~IsNone(e.id) /\ EntityFilter(e)

\* what fetch_function(entity_id) does for the i-th entity
FetchOf(i) == FetchFunction(scope, entities[i])

\* fetch_function raises: nothing in the loop catches it, the pass ends and
\* core_data_operation puts the message into its own, still empty, results
FetchRaises ==
    /\ InLoop
    /\ Eligible(entities[idx])
    /\ FetchOf(idx).kind = "raise"
    /\ fetch_log' = Append(fetch_log, idx)
    /\ returned' = ReturnError("Meraki API Error during compare")
    /\ opc' = "returned"
    /\ OrchUnchanged
    /\ UNCHANGED <<baseline, current, summary, idx, results>>

\* fetch_function raises an exception that is no meraki.APIError: the pass
\* ends the same way and core_data_operation catches it as Exception
FetchFails ==
    /\ InLoop
    /\ Eligible(entities[idx])
    /\ FetchOf(idx).kind = "error"
    /\ fetch_log' = Append(fetch_log, idx)
    /\ returned' = ReturnError("Unexpected Error during compare")
    /\ opc' = "returned"
    /\ OrchUnchanged
    /\ UNCHANGED <<baseline, current, summary, idx, results>>

\* `if current_data is None: continue`
FetchNoData ==
    /\ InLoop
    /\ Eligible(entities[idx])
    /\ FetchOf(idx).kind = "none"
    /\ fetch_log' = Append(fetch_log, idx)
    /\ idx' = idx + 1
    /\ OrchUnchanged
    /\ UNCHANGED <<baseline, current, summary, results, opc, returned>>

\* the entity is compared and its summary appended to results; an
\* exception of compare_func ends the pass like one of the fetch
CompareEntity ==
    /\ InLoop
    /\ Eligible(entities[idx])
    /\ FetchOf(idx).kind = "data"
    /\ fetch_log' = Append(fetch_log, idx)
    /\ current' = FetchOf(idx).data
    /\ IF CompareRaises(method, baseline, FetchOf(idx).data, group_by_key)
       THEN /\ returned' = ReturnError("Unexpected Error during compare")
            /\ opc' = "returned"
            /\ UNCHANGED <<summary, results, idx>>
       ELSE /\ summary' = CompareFunc(method, baseline, FetchOf(idx).data, group_by_key)
            /\ results' = Append(results, [name |-> entities[idx].name, summary |-> summary'])
            /\ idx' = idx + 1
            /\ UNCHANGED <<opc, returned>>
    /\ OrchUnchanged
    /\ UNCHANGED baseline

\* the loop is over: `return results`
ReturnResults ==
    /\ opc = "loop"
    /\ idx > Len(entities)
    /\ returned' = ReturnList(results)
    /\ opc' = "returned"
    /\ OrchUnchanged
    /\ UNCHANGED <<baseline, current, summary, idx, results, fetch_log>>

NextOrch ==
    \/ BaselineMissing
    \/ BaselineUnreadable
    \/ BaselineEmpty
    \/ ListingRaises
    \/ UnsupportedMethod
    \/ StartLoop
    \/ SkipNoId
    \/ SkipFiltered
    \/ FetchRaises
    \/ FetchFails
    \/ FetchNoData
    \/ CompareEntity
    \/ ReturnResults

SpecOrch == InitOrch /\ [][NextOrch]_vars

\* the loop is sequential and nothing blocks: every enabled step is taken
FairSpecOrch == SpecOrch /\ WF_vars(NextOrch)

-----------------------------------------------------------------------------
(* Properties                                                              *)

StructuralRun == pc = "done" /\ method = "deepdiff"

FlatRun == pc = "done" /\ method = "flat"

\* both snapshots are sequences of maps that all hold the grouping key, no
\* key value twice, and the comparison used the grouping key
KeyedList(v) ==
    /\ IsListOfDicts(v)
    /\ \A i \in 1..Len(v.l) : GroupKey \in DOMAIN v.l[i].m
    /\ \A i, j \in 1..Len(v.l) : v.l[i].m[GroupKey] = v.l[j].m[GroupKey] => i = j

Grouped == group_by_key = GroupKey /\ KeyedList(baseline) /\ KeyedList(current)

KeysOf(v) == {v.l[i].m[GroupKey] : i \in 1..Len(v.l)}

ElementOf(v, k) == v.l[CHOOSE i \in 1..Len(v.l) : v.l[i].m[GroupKey] = k]

EntityChangesOf(k) == SelectSeq(summary.relevant_changes, LAMBDA e : e.item_id = k)

\* the fields of a key value's element that differ between baseline and current
DifferingFields(k) ==
    {f \in DOMAIN ElementOf(baseline, k).m :
        ElementOf(baseline, k).m[f] # ElementOf(current, k).m[f]}

FieldChangesOf(k, fields) ==
    {FieldChange(JStr(f), ElementOf(baseline, k).m[f], ElementOf(current, k).m[f]) : f \in fields}

OneEntityChange(k, status) ==
    /\ Len(EntityChangesOf(k)) = 1
    /\ EntityChangesOf(k)[1].status = status

\* C1: in a grouped structural comparison of sequences of maps with
\* distinct key values, a key value present in both snapshots yields no
\* EntityChange when the two elements are equal and otherwise exactly one
\* EntityChange with status 'changed', the key value as item_id and one
\* FieldChange {field, baseline leaf, current leaf} per differing leaf; a key
\* value only in baseline yields exactly one EntityChange 'removed', a key
\* value only in current exactly one 'added'.
C1_EveryDifferingLeafIsAFieldChange ==
    (StructuralRun /\ Grouped) =>
        \A k \in KeysOf(baseline) \cup KeysOf(current) :
            IF k \in KeysOf(baseline) /\ k \in KeysOf(current)
            THEN IF DifferingFields(k) = {}
                 THEN EntityChangesOf(k) = <<>>
                 ELSE /\ OneEntityChange(k, "changed")
                      /\ Range(EntityChangesOf(k)[1].changes) = FieldChangesOf(k, DifferingFields(k))
                      /\ Len(EntityChangesOf(k)[1].changes) = Cardinality(DifferingFields(k))
            ELSE IF k \in KeysOf(baseline)
                 THEN OneEntityChange(k, "removed")
                 ELSE OneEntityChange(k, "added")

-----------------------------------------------------------------------------
(* The compare pass and a failing fetch                                    *)

\* the entity has an id and the filter predicate of the pass accepts it: at
\* organization level no organization is selected or the entity is one of
\* the selected organizations; the predicates of the other scopes are taken
\* as they are
Accepted(e) ==
    /\ e.id # JNull
    /\ IF scope = CompareScope
       THEN org_ids = <<>> \/ \E j \in 1..Len(org_ids) : org_ids[j] = e.id
       ELSE EntityFilter(e)

AcceptedIndexes == SelectSeq([i \in 1..Len(entities) |-> i], LAMBDA i : Accepted(entities[i]))

ValidPass ==
    /\ Loads(baseline_file)
    /\ listing = "ok"
    /\ baseline_file.data.t \in {"map", "list"}
    /\ baseline_file.data # JMap(<<>>)
    /\ method \in Registry(impl)

\* the engine of the pass raises on the snapshot of the i-th entity
EngineRaisesFor(i) ==
    /\ FetchOf(i).kind = "data"
    /\ CompareRaises(method, baseline_file.data, FetchOf(i).data, group_by_key)

\* the entry {name, summary} the pass owes to the i-th entity
EntryOf(i) ==
    [name |-> entities[i].name,
     summary |-> CompareFunc(method, baseline_file.data, FetchOf(i).data, group_by_key)]

\* C2: when the fetch of one entity raises, the returned result still is the
\* list of the pass, it holds the summary of every other accepted entity whose
\* fetch returns data, and it holds an error entry for the failing entity.
C2_FetchFailureDoesNotAbortThePass ==
    (opc = "returned" /\ ValidPass
        /\ \E i \in Range(fetch_log) : FetchOf(i).kind = "raise") =>
       /\ returned.t = "list"
       /\ \A i \in Range(AcceptedIndexes) :
             /\ (FetchOf(i).kind = "data" /\ ~EngineRaisesFor(i))
                   => EntryOf(i) \in Range(returned.items)
             /\ FetchOf(i).kind = "raise" =>
                   \E j \in 1..Len(returned.items) :
                       /\ returned.items[j].name = entities[i].name
                       /\ "error" \in DOMAIN returned.items[j]

-----------------------------------------------------------------------------
(* Whole elements added and removed, grouped                               *)

\* C3: in a grouped structural comparison every 'added' EntityChange carries
\* exactly one FieldChange {null, "N/A", E} with E the element of current whose
\* key value is the item_id, and every 'removed' EntityChange exactly one
\* FieldChange {null, E, "N/A"} with E the element of baseline.
C3_AddedAndRemovedCarryTheFullElement ==
    (StructuralRun /\ Grouped) =>
        \A i \in 1..Len(summary.relevant_changes) :
            LET e == summary.relevant_changes[i]
            IN /\ e.status = "added" =>
                     /\ e.item_id \in KeysOf(current)
                     /\ e.changes = <<FieldChange(JNull, NA, ElementOf(current, e.item_id))>>
               /\ e.status = "removed" =>
                     /\ e.item_id \in KeysOf(baseline)
                     /\ e.changes = <<FieldChange(JNull, ElementOf(baseline, e.item_id), NA)>>

-----------------------------------------------------------------------------
(* Reflexivity                                                             *)

NoDifferences(sm) ==
    /\ sm.has_diffs = FALSE
    /\ sm.relevant_changes = <<>>
    /\ sm.other_changes = <<>>
    /\ sm.summary_counts = [changed |-> 0, added |-> 0, removed |-> 0, other |-> 0]

\* C4: a snapshot compared with itself, by either engine and with or without
\* a grouping key, has no differences: the engine returns a summary in which
\* has_diffs is false, relevant_changes and other_changes are empty and every
\* count is 0.
C4_Reflexivity ==
    (pc \in {"done", "raised"} /\ PyEq(baseline, current)) =>
        /\ pc = "done"
        /\ NoDifferences(summary)

-----------------------------------------------------------------------------
(* Order of a keyed sequence                                               *)

\* the sequences with the elements of v in another order
Reorderings(v) ==
    LET n == Len(v.l)
    IN {JList([i \in 1..n |-> v.l[p[i]]]) :
           p \in {q \in [1..n -> 1..n] : \A i, j \in 1..n : q[i] = q[j] => i = j}}

\* the classified result: the EntityChanges and the other changes, as sets
Classified(sm) == [relevant |-> Range(sm.relevant_changes), other |-> Range(sm.other_changes)]

\* the classified result of the engine that ran, on other snapshots
ClassifiedBy(b, c) ==
    IF method = "flat"
    THEN IF FlatRaises(b, c, group_by_key) THEN [relevant |-> {"raised"}, other |-> {}]
         ELSE Classified(_handle_flat_comparison(b, c, group_by_key))
    ELSE IF DeepdiffRaises(b, c, group_by_key) THEN [relevant |-> {"raised"}, other |-> {}]
         ELSE Classified(_handle_deepdiff_comparison(b, c, group_by_key))

\* C5: in a grouped comparison by either engine, the classified result is
\* the same for every order of the elements of baseline and of current.
C5_OrderOfAKeyedSequenceIsIrrelevant ==
    (pc = "done" /\ Grouped) =>
        /\ \A b \in Reorderings(baseline) : ClassifiedBy(b, current) = Classified(summary)
        /\ \A c \in Reorderings(current) : ClassifiedBy(baseline, c) = Classified(summary)

-----------------------------------------------------------------------------
(* Keys of a root map added and removed, ungrouped                         *)

UngroupedMaps == group_by_key = "" /\ IsDict(baseline) /\ IsDict(current)

\* C6: in an ungrouped structural comparison of two root maps every key only
\* in current is one 'added' EntityChange whose single FieldChange has the
\* key's value in current as current_value, and every key only in baseline is
\* one 'removed' EntityChange whose single FieldChange has the key's value in
\* baseline as reference_value, whatever the value.
C6_AddedRemovedComplementarity ==
    (StructuralRun /\ UngroupedMaps) =>
        /\ \A k \in DOMAIN current.m \ DOMAIN baseline.m :
              /\ OneEntityChange(JStr(k), "added")
              /\ Len(EntityChangesOf(JStr(k))[1].changes) = 1
              /\ EntityChangesOf(JStr(k))[1].changes[1].current_value = current.m[k]
        /\ \A k \in DOMAIN baseline.m \ DOMAIN current.m :
              /\ OneEntityChange(JStr(k), "removed")
              /\ Len(EntityChangesOf(JStr(k))[1].changes) = 1
              /\ EntityChangesOf(JStr(k))[1].changes[1].reference_value = baseline.m[k]

-----------------------------------------------------------------------------
(* One EntityChange per item                                               *)

\* C7: the relevant_changes of a comparison, by either engine, never hold
\* two EntityChanges with the same item_id.
C7_OneEntityChangePerItem ==
    pc = "done" =>
        \A i, j \in 1..Len(summary.relevant_changes) :
            summary.relevant_changes[i].item_id = summary.relevant_changes[j].item_id => i = j

\* a comparison in which one item collected several events and another item
\* has an EntityChange of its own
C7_Witness ==
    /\ pc = "done"
    /\ Len(summary.relevant_changes) >= 2
    /\ \E i \in 1..Len(summary.relevant_changes) : Len(summary.relevant_changes[i].changes) >= 2

-----------------------------------------------------------------------------
(* The flat compare                                                        *)

\* the flattened leaf-path maps the flat compare of a flat run works on
FlatBaseline == flatten_json(Processed(baseline, group_by_key))
FlatCurrent == flatten_json(Processed(current, group_by_key))

\* the status the flat compare owes to a key of the union
StatusOf(key) ==
    IF key \notin DOMAIN FlatBaseline THEN "added"
    ELSE IF key \notin DOMAIN FlatCurrent THEN "removed"
    ELSE IF FlatBaseline[key] # FlatCurrent[key] THEN "changed"
    ELSE "equal"

\* C8: detailed_changes lists in ascending order of key exactly the keys of
\* the union that are only in current ('added'), only in baseline ('removed')
\* or in both with unequal values ('changed', also when one value is null);
\* has_changes is true iff detailed_changes is non-empty.
C8_FlatCompareStatuses ==
    FlatRun =>
        LET differing == {k \in DOMAIN FlatBaseline \cup DOMAIN FlatCurrent : StatusOf(k) # "equal"}
            dc == flat_out.detailed_changes
        IN /\ [i \in 1..Len(dc) |-> dc[i].key] = SortedStrs(differing)
           /\ \A i \in 1..Len(dc) : dc[i].status = StatusOf(dc[i].key)
           /\ flat_out.has_changes <=> dc # <<>>

-----------------------------------------------------------------------------
(* flatten_json                                                            *)

\* a snapshot of nested non-empty maps and sequences whose leaves are scalars
RECURSIVE ScalarLeaves(_)
ScalarLeaves(v) ==
    IF IsDict(v) THEN DOMAIN v.m # {} /\ \A k \in DOMAIN v.m : ScalarLeaves(v.m[k])
    ELSE IF IsList(v) THEN v.l # <<>> /\ \A i \in 1..Len(v.l) : ScalarLeaves(v.l[i])
    ELSE TRUE

\* C9: flatten_json is injective on snapshots whose leaves are scalars: two
\* snapshots with the same path-to-value mapping are the same snapshot.
C9_FlattenIsInjective ==
    (pc = "flattened" /\ ScalarLeaves(baseline) /\ ScalarLeaves(current)
        /\ flat_ref = flat_cur) => PyEq(baseline, current)

-----------------------------------------------------------------------------
(* The compare pass: one entry per eligible entity                         *)

\* C10: in a pass with a valid baseline and engine in which no fetch raises,
\* the fetch function is invoked only for entities that have an id and that
\* the filter accepts, at most once each and in the order supplied, and the
\* returned list holds exactly one entry {name, summary} for each of them
\* whose fetch returns data, in that order.
C10_OneEntryPerEligibleEntity ==
    (ValidPass /\ \A i \in Range(AcceptedIndexes) : FetchOf(i).kind \notin {"raise", "error"}) =>
        /\ \E n \in 0..Len(AcceptedIndexes) : fetch_log = SubSeq(AcceptedIndexes, 1, n)
        /\ opc = "returned" =>
              /\ fetch_log = AcceptedIndexes
              /\ returned = ReturnList(
                     LET withData == SelectSeq(AcceptedIndexes,
                                               LAMBDA i : FetchOf(i).kind = "data")
                     IN [j \in 1..Len(withData) |-> EntryOf(withData[j])])

\* the same for the passes in which the engine returns a summary for every
\* snapshot it is handed
C10_WhenTheEngineReturns ==
    (\A i \in Range(AcceptedIndexes) : ~EngineRaisesFor(i)) => C10_OneEntryPerEligibleEntity

\* a returned pass that compared an entity and skipped another, which the
\* filter rejects or which has no id
C10_Witness ==
    /\ opc = "returned" /\ ValidPass
    /\ Len(returned.items) >= 1
    /\ \E i \in 1..Len(entities) : ~Accepted(entities[i])

-----------------------------------------------------------------------------
(* An unknown comparison method                                            *)

\* C11: a compare pass called with a method name that is no registered
\* engine returns a structured {error: message} value to the caller of
\* core_data_operation, and fetches no entity's snapshot.
C11_UnknownMethodIsReportedAsError ==
    (opc = "returned" /\ Loads(baseline_file) /\ method \notin {"deepdiff", "flat"}) =>
        /\ returned.t = "dict"
        /\ returned.error # ""
        /\ fetch_log = <<>>

-----------------------------------------------------------------------------
(* The flat classifier: status precedence                                  *)

\* was_list_transformed and top_level_item_ids of the flat run at hand
FlatTransformed ==
    IsPDict(Processed(baseline, group_by_key)) \/ IsPDict(Processed(current, group_by_key))

FlatTopIds ==
    TopLevelIds(Processed(baseline, group_by_key)) \cup TopLevelIds(Processed(current, group_by_key))

\* the statuses of the flat key changes grouped under an item id
StatusesUnder(item_id) ==
    {flat_out.detailed_changes[i].status : i \in
        {j \in 1..Len(flat_out.detailed_changes) :
            GroupingOf(flat_out.detailed_changes[j].key, FlatTransformed, FlatTopIds).item_id
                = item_id}}

\* removed > added > changed
HighestStatus(S) ==
    IF "removed" \in S THEN "removed" ELSE IF "added" \in S THEN "added" ELSE "changed"

\* every order in which the entries of a sequence can be processed
Orderings(q) ==
    LET n == Len(q)
    IN {[i \in 1..n |-> q[p[i]]] :
           p \in {r \in [1..n -> 1..n] : \A i, j \in 1..n : r[i] = r[j] => i = j}}

\* the status the grouping loop gives an item id when it processes changes
GroupedStatus(changes, item_id) ==
    LET g == GroupFlatChanges(<<>>, changes, FlatTransformed, FlatTopIds)
    IN (g[CHOOSE i \in 1..Len(g) : g[i].item_id = JStr(item_id)]).status

\* C16: the status of every grouped item of a flat run is the
\* highest-precedence status (removed > added > changed) among the flat key
\* changes grouped under it, whatever the order the key changes are
\* processed in.
C16_StatusPrecedence ==
    FlatRun =>
        \A i \in 1..Len(summary.relevant_changes) :
            LET e == summary.relevant_changes[i]
            IN /\ StatusesUnder(e.item_id.s) # {}
               /\ e.status = HighestStatus(StatusesUnder(e.item_id.s))
               /\ \A o \in Orderings(flat_out.detailed_changes) :
                      GroupedStatus(o, e.item_id.s) = e.status

\* a flat run with an item whose key changes carry different statuses, the
\* one of highest precedence not being the last processed
C16_Witness ==
    /\ FlatRun
    /\ \E i \in 1..Len(summary.relevant_changes) :
          LET e == summary.relevant_changes[i]
              dc == SelectSeq(flat_out.detailed_changes,
                              LAMBDA c : GroupingOf(c.key, FlatTransformed, FlatTopIds).item_id
                                             = e.item_id.s)
          IN /\ Cardinality(StatusesUnder(e.item_id.s)) >= 2
             /\ dc[Len(dc)].status # e.status

-----------------------------------------------------------------------------
(* The flat classifier: whole elements of added and removed items          *)

\* the element of a transformed snapshot whose grouping-key value reads as
\* the item id, null when there is none
TransformedElement(processed, item_id) ==
    IF IsPDict(processed) /\ \E i \in 1..Len(processed.l) : KeyText(processed.l[i].k) = item_id
    THEN (processed.l[CHOOSE i \in 1..Len(processed.l) : KeyText(processed.l[i].k) = item_id]).v
    ELSE JNull

\* C17: after a list-to-map transformation, every item of a flat run whose
\* status is 'added' ('removed') has as changes exactly one FieldChange with
\* field null that holds the whole transformed element of current
\* (baseline) for that item, for string and for number grouping-key values.
C17_WholeElementOfAddedAndRemoved ==
    (FlatRun /\ FlatTransformed) =>
        \A i \in 1..Len(summary.relevant_changes) :
            LET e == summary.relevant_changes[i]
                cur == TransformedElement(Processed(current, group_by_key), e.item_id.s)
                ref == TransformedElement(Processed(baseline, group_by_key), e.item_id.s)
            IN /\ e.status = "added" =>
                     ~IsNone(cur) /\ e.changes = <<FieldChange(JNull, NA, cur)>>
               /\ e.status = "removed" =>
                     ~IsNone(ref) /\ e.changes = <<FieldChange(JNull, ref, NA)>>

-----------------------------------------------------------------------------
(* The flat classifier: grouping of flat keys under item ids               *)

\* flat keys as flatten_json builds them from a transformed snapshot: the
\* key value of an element, '.', and the path below it; "a." is the key of
\* the field named "" of element "a", "val" a key of an element whose key
\* value is "" or 0, "a" a root key of a snapshot that was not transformed
FlatKeys == {"a", "a.", "a.val", "a.b", "a.b.val", "ab.val", "1.id", "val", ".val", ""}

\* the known item ids: str(k) of the key values of the transformed snapshots
ItemIds == {"a", "a.b", "1", ""}

InitGrouping ==
    /\ grouping_in \in [full_key : FlatKeys, was_list_transformed : BOOLEAN,
                        top_level_item_ids : SUBSET ItemIds]
    /\ grouping_out = <<>>
    /\ pc = "grouping"
    /\ baseline = JNull
    /\ current = JNull
    /\ group_by_key = GroupKey
    /\ method = "flat"
    /\ summary = EmptySummary
    /\ diff_events = <<>>
    /\ flat_ref = <<>>
    /\ flat_cur = <<>>
    /\ flat_out = [has_changes |-> FALSE, detailed_changes |-> <<>>]
    /\ OrchIdle
    /\ CoreIdle
    /\ UiIdle
    /\ transform_in = <<>>
    /\ transform_out = <<>>
    /\ device_in = <<>>
    /\ device_out = <<>>
    /\ path_in = ""
    /\ path_out = <<>>

\* one pass of the grouping loop of _summarize_flat_results
GroupKeyChange ==
    /\ pc = "grouping"
    /\ grouping_out' = GroupingOf(grouping_in.full_key, grouping_in.was_list_transformed,
                                  grouping_in.top_level_item_ids)
    /\ pc' = "grouped"
    /\ UNCHANGED <<baseline, current, group_by_key, method, summary, diff_events,
                   flat_ref, flat_cur, flat_out, grouping_in,
                   transform_in, transform_out, device_in, device_out,
                   path_in, path_out>>
    /\ UNCHANGED <<orchVars, coreVars, uiVars>>

NextGrouping == GroupKeyChange

SpecGrouping == InitGrouping /\ [][NextGrouping]_vars

\* the known item ids a flat key equals or starts with, followed by '.'
MatchingIds(full_key, ids) ==
    {id \in ids : full_key = id \/ StartsWith(full_key, id \o ".")}

LongestOf(ids) == CHOOSE id \in ids : \A other \in ids : Len(other) <= Len(id)

\* C18: a flat key is grouped under the longest known item id it equals or
\* starts with followed by '.', the field being the rest of the key after
\* that separator, null when the key is the id; a key that matches no known
\* id, and every key when nothing was transformed, is grouped under
\* 'Global Configuration' with the full key as field.
C18_LongestPrefixGrouping ==
    pc = "grouped" =>
        LET key == grouping_in.full_key
            matches == MatchingIds(key, grouping_in.top_level_item_ids)
        IN IF grouping_in.was_list_transformed /\ matches # {}
           THEN LET id == LongestOf(matches)
                IN /\ grouping_out.item_id = id
                   /\ grouping_out.field = IF key = id THEN JNull
                                           ELSE JStr(SubSeq(key, Len(id) + 2, Len(key)))
           ELSE /\ grouping_out.item_id = GlobalConfiguration
                /\ grouping_out.field = JStr(key)

-----------------------------------------------------------------------------
(* The list-to-map transformation                                          *)

MaxRows == 3      \* longest sequence handed to the transformation on its own

\* rows with a number, a string, a null, an absent and a sequence-valued
\* grouping key; 1 and "1" are different keys of a dict
TransformElements ==
    {JMap([f \in {"id", "val"} |-> IF f = "id" THEN k ELSE v]) :
        k \in {JInt(1), JStr("1"), JStr("a"), JNull, JList(<<JInt(1)>>)}, v \in {JStr("x")}}
    \cup {JMap([f \in {"id", "val"} |-> IF f = "id" THEN JInt(1) ELSE JStr("y")]),
          JMap([f \in {"val"} |-> JStr("x")])}

InitTransform ==
    /\ transform_in \in [data_list : {JList(q) : q \in SeqsUpTo(TransformElements, MaxRows)},
                         key : {GroupKey}]
    /\ transform_out = <<>>
    /\ pc = "transform"
    /\ baseline = JNull
    /\ current = JNull
    /\ group_by_key = GroupKey
    /\ method = "flat"
    /\ summary = EmptySummary
    /\ diff_events = <<>>
    /\ flat_ref = <<>>
    /\ flat_cur = <<>>
    /\ flat_out = [has_changes |-> FALSE, detailed_changes |-> <<>>]
    /\ OrchIdle
    /\ CoreIdle
    /\ UiIdle
    /\ grouping_in = <<>>
    /\ grouping_out = <<>>
    /\ device_in = <<>>
    /\ device_out = <<>>
    /\ path_in = ""
    /\ path_out = <<>>

\* `item_id in transformed` raises TypeError for a key value that is a
\* sequence or a map
TransformRaises(data_list, key) ==
    \E i \in 1..Len(data_list.l) : DictGet(data_list.l[i].m, key).t \in {"map", "list"}

TransformUnchanged ==
    /\ UNCHANGED <<baseline, current, group_by_key, method, summary, diff_events,
                   flat_ref, flat_cur, flat_out, transform_in,
                   grouping_in, grouping_out, device_in, device_out,
                   path_in, path_out>>
    /\ UNCHANGED <<orchVars, coreVars, uiVars>>

\* _transform_list_to_dict_by_key returns the dict
TransformReturns ==
    /\ pc = "transform"
    /\ ~TransformRaises(transform_in.data_list, transform_in.key)
    /\ transform_out' = [raised |-> FALSE,
                         transformed |-> _transform_list_to_dict_by_key(
                                             transform_in.data_list, transform_in.key),
                         data_list |-> transform_in.data_list]
    /\ pc' = "transformed"
    /\ TransformUnchanged

\* _transform_list_to_dict_by_key raises TypeError
TransformFails ==
    /\ pc = "transform"
    /\ TransformRaises(transform_in.data_list, transform_in.key)
    /\ transform_out' = [raised |-> TRUE, transformed |-> PDict(<<>>),
                         data_list |-> transform_in.data_list]
    /\ pc' = "transformed"
    /\ TransformUnchanged

NextTransform ==
    \/ TransformReturns
    \/ TransformFails

SpecTransform == InitTransform /\ [][NextTransform]_vars

\* the non-null grouping-key values occurring in a sequence of rows
KeyValuesIn(rows, key) ==
    {DictGet(rows[i].m, key) : i \in 1..Len(rows)} \ {JNull}

\* the last row of the sequence that carries the key value
LastWith(rows, key, k) ==
    rows[CHOOSE i \in 1..Len(rows) :
            /\ DictGet(rows[i].m, key) = k
            /\ \A j \in (i + 1)..Len(rows) : DictGet(rows[j].m, key) # k]

\* the transformation kept, for every non-null key value of the sequence,
\* one entry holding the last row that carries it, and nothing else
LastRowPerKey ==
    LET rows == transform_in.data_list.l
        out == transform_out.transformed.l
    IN /\ {out[i].k : i \in 1..Len(out)} = KeyValuesIn(rows, transform_in.key)
       /\ \A i, j \in 1..Len(out) : out[i].k = out[j].k => i = j
       /\ \A i \in 1..Len(out) : out[i].v = LastWith(rows, transform_in.key, out[i].k)
       /\ transform_out.data_list = transform_in.data_list

\* C19: the result of _transform_list_to_dict_by_key has exactly one entry
\* per distinct non-null grouping-key value of the sequence, holding the
\* last element that carries the value; elements without the key or with a
\* null key are dropped; the input sequence is unchanged.
C19_TransformKeepsLastPerKey ==
    pc = "transformed" => (~transform_out.raised /\ LastRowPerKey)

\* the same for sequences whose key values are strings, numbers or null
C19_OnScalarKeys ==
    (pc = "transformed" /\ ~transform_out.raised) => LastRowPerKey

-----------------------------------------------------------------------------
(* The structural classifier: events below an item                         *)

\* the diff events of a structural run whose path names an item and a field
\* below it
NestedEvents ==
    {ev \in Range(diff_events) :
        LET pth == _extract_path_components(ev.path)
        IN ~IsNone(pth.item_id) /\ ~pth.is_root_item /\ ~IsNone(pth.field)}

\* the event was appended as a FieldChange to the changes of its item
IsFieldChange(ev) ==
    LET pth == _extract_path_components(ev.path)
    IN \E i \in 1..Len(summary.relevant_changes) :
          LET e == summary.relevant_changes[i]
          IN /\ e.item_id = pth.item_id
             /\ e.status = "changed"
             /\ \E j \in 1..Len(e.changes) : e.changes[j].field = pth.field

\* the event was routed to other_changes
IsOtherChange(ev) ==
    LET pth == _extract_path_components(ev.path)
    IN \E i \in 1..Len(summary.other_changes) :
          LET o == summary.other_changes[i]
          IN /\ o.item_id = pth.item_id
             /\ o.field \in {pth.field, JStr(ev.path)}
             /\ o.status = "other"

\* C20: every diff event of any kind (value change, key added or removed,
\* sequence element added or removed, type change) with a non-null item id
\* and a nested field is appended as a FieldChange to the changes of its
\* item, whose status becomes 'changed', and is never routed to
\* other_changes.
C20_NestedEventsAreFieldChanges ==
    StructuralRun =>
        \A ev \in NestedEvents : IsFieldChange(ev) /\ ~IsOtherChange(ev)

-----------------------------------------------------------------------------
(* The two implementations of the compare pass                             *)

\* the loop of _compare_level_general over the entities from the i-th on,
\* with the results collected and the fetches made so far: the value
\* core_data_operation returns and the entities fetched
RECURSIVE LoopOutcome(_, _, _, _)
LoopOutcome(base, i, collected, fetched) ==
    IF i > Len(entities) THEN [returned |-> ReturnList(collected), fetch_log |-> fetched]
    ELSE IF ~Eligible(entities[i]) THEN LoopOutcome(base, i + 1, collected, fetched)
    ELSE IF FetchOf(i).kind = "raise"
         THEN [returned |-> ReturnError("Meraki API Error during compare"),
               fetch_log |-> Append(fetched, i)]
    ELSE IF FetchOf(i).kind = "error"
         THEN [returned |-> ReturnError("Unexpected Error during compare"),
               fetch_log |-> Append(fetched, i)]
    ELSE IF FetchOf(i).kind = "none"
         THEN LoopOutcome(base, i + 1, collected, Append(fetched, i))
    ELSE IF CompareRaises(method, base, FetchOf(i).data, group_by_key)
         THEN [returned |-> ReturnError("Unexpected Error during compare"),
               fetch_log |-> Append(fetched, i)]
    ELSE LoopOutcome(base, i + 1,
                     Append(collected,
                            [name |-> entities[i].name,
                             summary |-> CompareFunc(method, base, FetchOf(i).data,
                                                     group_by_key)]),
                     Append(fetched, i))

\* core_data_operation(scope, operation, "compare", filename) of an
\* implementation on a baseline file, with the entities, filter and method
\* of the state
PassOutcomeOn(implementation, file, listed) ==
    IF file.load = "FileNotFoundError"
    THEN [returned |-> ReturnError("File not found during compare"), fetch_log |-> <<>>]
    ELSE IF ~Loads(file)
    THEN [returned |-> ReturnError("Unexpected Error during compare"), fetch_log |-> <<>>]
    ELSE IF ~Truthy(file.data) THEN [returned |-> ReturnList(<<>>), fetch_log |-> <<>>]
    ELSE IF listed = "raise"
    THEN [returned |-> ReturnError("Meraki API Error during compare"), fetch_log |-> <<>>]
    ELSE IF listed # "ok"
    THEN [returned |-> ReturnError("Unexpected Error during compare"), fetch_log |-> <<>>]
    ELSE IF method \notin Registry(implementation)
         THEN [returned |-> ReturnList(<<>>), fetch_log |-> <<>>]
    ELSE LoopOutcome(file.data, 1, <<>>, <<>>)

\* the value the pass of the state returns with an implementation
PassOutcome(implementation) ==
    PassOutcomeOn(implementation, baseline_file, listing).returned

\* the pass of the state returns, and fetches, what PassOutcomeOn computes
\* for its implementation
PassOutcomeIsWhatThePassReturns ==
    opc = "returned" =>
        /\ returned = PassOutcomeOn(impl, baseline_file, listing).returned
        /\ fetch_log = PassOutcomeOn(impl, baseline_file, listing).fetch_log

\* C14: for the same baseline, entities, filter, fetch results and engine
\* name 'deepdiff' or 'flat', the compare of the ProjectLogic class returns
\* the same per-entity summaries as the compare of compare_functions.
C14_BothImplementationsAgree ==
    (opc = "returned" /\ method \in {"deepdiff", "flat"}) =>
        /\ returned = PassOutcome("module")
        /\ returned = PassOutcome("class")

-----------------------------------------------------------------------------
(* core_data_operation: the store task and the unknown scope               *)

\* {"success": True}
ReturnSuccess == [t |-> "dict", items |-> <<>>, error |-> "", success |-> TRUE]

\* the snapshot the fetch function of a store delivers
StoredSnapshot == JMap([k \in {"a"} |-> JInt(1)])

\* what save_to_json does: it writes the file; open raises
\* FileNotFoundError or another exception and no file is written; or
\* json.dump raises on the way and leaves the text written so far
SaveOutcomes == {"ok", "FileNotFoundError", "PermissionError", "TypeError"}

\* the file a json.dump that raised leaves behind
TruncatedFile == [t |-> "truncated", s |-> "", m |-> <<>>, l |-> <<>>]

\* what a store meets: whether USE_CASES names a fetch function for the
\* operation (never for an unknown scope), whether the fetch raises
\* meraki.APIError or another exception, and what the save does
StoreEnvs ==
    [has_fetch : BOOLEAN, fetch : {"raise", "error", "data"}, save : SaveOutcomes]

InitCore ==
    \/ /\ scope \in Scopes
       /\ ComparePassInputs
       /\ task = "compare"
    \/ /\ task = "store"
       /\ scope \in Scopes
       /\ impl \in Implementations
       /\ store_env \in {e \in StoreEnvs : scope \notin CompareScopes => ~e.has_fetch}
       /\ saved = <<>>
       /\ entities = <<>>
       /\ org_ids = <<>>
       /\ baseline_file = MissingFile
       /\ listing = "ok"
       /\ filters = NoFilters
       /\ method = "deepdiff"
       /\ group_by_key = ""
       /\ baseline = JNull
       /\ current = JNull
       /\ summary = EmptySummary
       /\ diff_events = <<>>
       /\ flat_ref = <<>>
       /\ flat_cur = <<>>
       /\ flat_out = [has_changes |-> FALSE, detailed_changes |-> <<>>]
       /\ pc = "orchestrated"
       /\ idx = 0
       /\ results = <<>>
       /\ fetch_log = <<>>
       /\ opc = "called"
       /\ returned = ReturnList(<<>>)
       /\ UiIdle
       /\ FnIdle

CoreUnchanged ==
    /\ UNCHANGED <<entities, idx, results, fetch_log, org_ids, baseline_file, listing,
                   filters>>
    /\ UNCHANGED <<impl, task, scope, store_env>>
    /\ UNCHANGED <<engineVars, uiVars, fnVars>>

\* `raise ValueError("Compare function not found for scope")`, caught by
\* `except Exception`
UnknownScope ==
    /\ opc = "called"
    /\ task = "compare"
    /\ scope \notin CompareScopes
    /\ returned' = ReturnError("Unexpected Error during compare")
    /\ opc' = "returned"
    /\ UNCHANGED saved
    /\ CoreUnchanged

\* store raises ValueError: no fetch function for the operation
StoreNoFetchFunction ==
    /\ opc = "called"
    /\ task = "store"
    /\ ~store_env.has_fetch
    /\ returned' = ReturnError("Unexpected Error during store")
    /\ opc' = "returned"
    /\ UNCHANGED saved
    /\ CoreUnchanged

\* the fetch function raises; store re-raises
StoreFetchRaises ==
    /\ opc = "called"
    /\ task = "store"
    /\ store_env.has_fetch
    /\ store_env.fetch = "raise"
    /\ returned' = ReturnError("Meraki API Error during store")
    /\ opc' = "returned"
    /\ UNCHANGED saved
    /\ CoreUnchanged

\* the fetch function raises an exception that is no meraki.APIError
StoreFetchFails ==
    /\ opc = "called"
    /\ task = "store"
    /\ store_env.has_fetch
    /\ store_env.fetch = "error"
    /\ returned' = ReturnError("Unexpected Error during store")
    /\ opc' = "returned"
    /\ UNCHANGED saved
    /\ CoreUnchanged

\* save_to_json raises again what open or json.dump raised and store lets
\* it through: core_data_operation catches FileNotFoundError, or any other
\* exception; a json.dump that raised has left a truncated file
StoreSaveFails ==
    /\ opc = "called"
    /\ task = "store"
    /\ store_env.has_fetch
    /\ store_env.fetch = "data"
    /\ store_env.save # "ok"
    /\ saved' = IF store_env.save = "TypeError" THEN Append(saved, TruncatedFile) ELSE saved
    /\ returned' = ReturnError(IF store_env.save = "FileNotFoundError"
                               THEN "File not found during store"
                               ELSE "Unexpected Error during store")
    /\ opc' = "returned"
    /\ CoreUnchanged

\* the snapshot is fetched and written: `results = {"success": True}`
StoreSucceeds ==
    /\ opc = "called"
    /\ task = "store"
    /\ store_env.has_fetch
    /\ store_env.fetch = "data"
    /\ store_env.save = "ok"
    /\ saved' = Append(saved, StoredSnapshot)
    /\ returned' = ReturnSuccess
    /\ opc' = "returned"
    /\ CoreUnchanged

NextCore ==
    \/ UnknownScope
    \/ StoreNoFetchFunction
    \/ StoreFetchRaises
    \/ StoreFetchFails
    \/ StoreSaveFails
    \/ StoreSucceeds
    \/ NextOrch

SpecCore == InitCore /\ [][NextCore]_vars

IsErrorValue(v) == v.t = "dict" /\ v.error # "" /\ "success" \notin DOMAIN v

\* C13: every exception raised below core_data_operation ends as a
\* returned value: for 'store' {success: true} exactly when the snapshot was
\* fetched and written, and then the file holds the snapshot, else a value
\* with an 'error' message ('File not found during store' when the save
\* raised FileNotFoundError, 'Meraki API Error during store' when the fetch
\* raised meraki.APIError, 'Unexpected Error during store' otherwise); for
\* 'compare' the list of per-entity summaries or a value with an 'error'
\* message, which it is for an unknown scope, a baseline file that does not
\* load, a listing of the entities that raises, a fetch that raises and an
\* engine that raises.
C13_ErrorsAreReturnedAsValues ==
    opc = "returned" =>
        /\ task = "store" =>
              /\ returned = ReturnSuccess \/ IsErrorValue(returned)
              /\ returned = ReturnSuccess <=>
                    (store_env.has_fetch /\ store_env.fetch = "data" /\ store_env.save = "ok")
              /\ returned = ReturnSuccess => saved = <<StoredSnapshot>>
              /\ IsErrorValue(returned) =>
                    returned = ReturnError(
                        IF ~store_env.has_fetch THEN "Unexpected Error during store"
                        ELSE IF store_env.fetch = "raise" THEN "Meraki API Error during store"
                        ELSE IF store_env.fetch = "error" THEN "Unexpected Error during store"
                        ELSE IF store_env.save = "FileNotFoundError"
                        THEN "File not found during store"
                        ELSE "Unexpected Error during store")
        /\ task = "compare" =>
              /\ returned.t = "list" \/ IsErrorValue(returned)
              /\ scope \notin CompareScopes =>
                    returned = ReturnError("Unexpected Error during compare")
              /\ (scope \in CompareScopes /\ ~Loads(baseline_file)) =>
                    returned = ReturnError(IF baseline_file.load = "FileNotFoundError"
                                           THEN "File not found during compare"
                                           ELSE "Unexpected Error during compare")
              /\ (scope \in CompareScopes /\ Loads(baseline_file)
                    /\ Truthy(baseline_file.data) /\ listing # "ok") =>
                    /\ returned = ReturnError(IF listing = "raise"
                                              THEN "Meraki API Error during compare"
                                              ELSE "Unexpected Error during compare")
                    /\ fetch_log = <<>>
              /\ (\E i \in Range(fetch_log) : FetchOf(i).kind = "raise") =>
                    returned = ReturnError("Meraki API Error during compare")
              /\ (\E i \in Range(fetch_log) : FetchOf(i).kind = "error" \/ EngineRaisesFor(i)) =>
                    returned = ReturnError("Unexpected Error during compare")

\* a store whose fetch delivered the snapshot and whose save raised
\* FileNotFoundError
C13_Witness ==
    /\ opc = "returned"
    /\ task = "store"
    /\ store_env.has_fetch
    /\ store_env.fetch = "data"
    /\ store_env.save = "FileNotFoundError"
    /\ returned = ReturnError("File not found during store")
    /\ saved = <<>>

-----------------------------------------------------------------------------
(* perform_comparison: one comparison run over the operations of a scope   *)

\* get_operations(scope): name and display_name of the operations USE_CASES
\* lists for the scope, in order
get_operations(level) ==
    IF level = CompareScope
    THEN <<[name |-> "organization_admins", display_name |-> "Organization Administrators"],
           [name |-> "organization_settings", display_name |-> "Organization Settings"]>>
    ELSE IF level = NetworkScope
    THEN <<[name |-> "network_ssids", display_name |-> "Wireless Network SSIDs"],
           [name |-> "network_settings", display_name |-> "Network Settings"]>>
    ELSE IF level = DeviceScope
    THEN <<[name |-> "switchport_on_switch", display_name |-> "Switchport on a switch"]>>
    ELSE <<>>

\* list_json_files of the folder of an operation: no file, a file that
\* holds no JSON, a file that holds a snapshot
StoredFiles == {<<>>, <<"bad.json">>, <<"base.json">>}

\* what load_from_json finds under a file name: the empty name is the
\* folder of the operation itself, which open refuses to read
FileOf(filename) ==
    IF filename = "base.json"
    THEN LoadedFile(JMap([k \in {"a"} |-> JInt(1)]))
    ELSE IF filename = "bad.json" THEN FailingFile("JSONDecodeError")
    ELSE IF filename = "" THEN FailingFile("IsADirectoryError")
    ELSE MissingFile

\* the operations of a scope, each with the files of its folder
RunOperations(level) ==
    {[i \in 1..Len(get_operations(level)) |->
         [name |-> get_operations(level)[i].name,
          display_name |-> get_operations(level)[i].display_name,
          files |-> q[i]]] :
        q \in [1..Len(get_operations(level)) -> StoredFiles]}

\* the data input_group returns: the values of the inputs that have a
\* name, the check box and the buttons; the select of an operation is built
\* as select(label, lablel=options, value=operation_name), without a name
FormData == [submit : {"Submit", "Cancel"}, deep_comparison_checkbox : {<<>>, <<"deep">>}]

\* perform_comparison(scope) is called: the UI works on the ProjectLogic
\* class
InitRun ==
    /\ scope \in CompareScopes
    /\ operations \in RunOperations(scope)
    /\ operation_selections = <<>>
    /\ op_idx = 0
    /\ run_results = <<>>
    /\ method = ""
    /\ impl = "class"
    /\ task = "compare"
    /\ entities = <<>>
    /\ org_ids = <<>>
    /\ baseline_file = MissingFile
    /\ listing = "ok"
    /\ filters = NoFilters
    /\ store_env = [has_fetch |-> TRUE, fetch |-> "data", save |-> "ok"]
    /\ saved = <<>>
    /\ group_by_key = ""
    /\ baseline = JNull
    /\ current = JNull
    /\ summary = EmptySummary
    /\ diff_events = <<>>
    /\ flat_ref = <<>>
    /\ flat_cur = <<>>
    /\ flat_out = [has_changes |-> FALSE, detailed_changes |-> <<>>]
    /\ pc = "orchestrated"
    /\ idx = 0
    /\ results = <<>>
    /\ fetch_log = <<>>
    /\ opc = "form"
    /\ returned = ReturnList(<<>>)
    /\ FnIdle

RunUnchanged ==
    /\ UNCHANGED <<operations, baseline, current, group_by_key, summary, diff_events,
                   flat_ref, flat_cur, flat_out, pc>>
    /\ UNCHANGED <<entities, idx, results, fetch_log, returned, org_ids, baseline_file,
                   listing, filters>>
    /\ UNCHANGED <<coreVars, fnVars>>

\* select is called with neither options nor name, which pywebio may
\* refuse: the exception leaves perform_comparison before the form is shown
FormRaises ==
    /\ opc = "form"
    /\ opc' = "raised"
    /\ UNCHANGED <<operation_selections, op_idx, run_results, method>>
    /\ RunUnchanged

\* the form is shown and answered
FormAnswered ==
    /\ opc = "form"
    /\ operation_selections' \in FormData
    /\ opc' = "answered"
    /\ UNCHANGED <<op_idx, run_results, method>>
    /\ RunUnchanged

\* `if operation_selections["submit"] == "Cancel": ... return`
FormCancelled ==
    /\ opc = "answered"
    /\ operation_selections.submit = "Cancel"
    /\ opc' = "cancelled"
    /\ UNCHANGED <<operation_selections, op_idx, run_results, method>>
    /\ RunUnchanged

\* the comparison method is read off the check box and the loop over the
\* operations begins
StartRun ==
    /\ opc = "answered"
    /\ operation_selections.submit # "Cancel"
    /\ method' = IF "deep" \in Range(operation_selections.deep_comparison_checkbox)
                 THEN "deepdiff" ELSE "flat"
    /\ op_idx' = 1
    /\ run_results' = <<>>
    /\ opc' = "run"
    /\ UNCHANGED operation_selections
    /\ RunUnchanged

InRun == opc = "run" /\ op_idx >= 1 /\ op_idx <= Len(operations)

\* operation_selections.get(key): None, here "", for a key the data lacks
SelectedFile(key) ==
    IF key \in DOMAIN operation_selections THEN operation_selections[key] ELSE ""

\* `not selected_file or selected_file == "No JSON files found"`
NothingSelected(selected_file) ==
    selected_file = "" \/ selected_file = "No JSON files found"

\* an entry of the results map, with the entities fetched for the operation
RunEntry(name, result, fetched) == [name |-> name, result |-> result, fetched |-> fetched]

\* {"error": "No baseline file selected or found for <display_name>."}
NoBaselineError(op) ==
    ReturnError("No baseline file selected or found for " \o op.display_name \o ".")

\* `results[operation_name] = {"error": "No baseline file selected ..."}`:
\* the data of the form holds no key that is the name of an operation, so
\* every operation of the run ends here and core_data_operation is not
\* called for any
NoBaselineSelected ==
    /\ InRun
    /\ NothingSelected(SelectedFile(operations[op_idx].name))
    /\ run_results' = Append(run_results,
                             RunEntry(operations[op_idx].name,
                                      NoBaselineError(operations[op_idx]), <<>>))
    /\ op_idx' = op_idx + 1
    /\ UNCHANGED <<operation_selections, method, opc>>
    /\ RunUnchanged

\* the loop is over: display_comparison_results(results, ...)
DisplayResults ==
    /\ opc = "run"
    /\ op_idx > Len(operations)
    /\ opc' = "displayed"
    /\ UNCHANGED <<operation_selections, op_idx, run_results, method>>
    /\ RunUnchanged

NextRun ==
    \/ FormRaises
    \/ FormAnswered
    \/ FormCancelled
    \/ StartRun
    \/ NoBaselineSelected
    \/ DisplayResults

SpecRun == InitRun /\ [][NextRun]_vars

\* the baseline of the operation is missing: its folder holds no file, or
\* the file it holds cannot be loaded
BaselineIsMissing(op) == \A n \in 1..Len(op.files) : ~Loads(FileOf(op.files[n]))

\* C12: after perform_comparison the results map holds exactly one entry
\* per operation of the scope; an operation whose baseline is missing has
\* the result {error: message} and no entity was fetched for it; every other
\* operation was executed and has the result of its own compare pass.
C12_MissingBaselineStopsOnlyItsOperation ==
    opc \in {"raised", "displayed"} =>
        /\ Len(run_results) = Len(operations)
        /\ \A i \in 1..Len(operations) :
              /\ run_results[i].name = operations[i].name
              /\ BaselineIsMissing(operations[i]) =>
                    /\ IsErrorValue(run_results[i].result)
                    /\ run_results[i].fetched = <<>>
              /\ ~BaselineIsMissing(operations[i]) =>
                    run_results[i].result # NoBaselineError(operations[i])

-----------------------------------------------------------------------------
(* The device filter                                                       *)

\* device records as get_devices(simplified=True) delivers them: the keys
\* serial, name, tags, productType and model of the dashboard's record
DeviceRecords ==
    [serial : {"Q1"}, name : {"d1"}, tags : {<<>>, <<"t1">>}, model : {"MX", "MS"},
     productType : {"appliance", "switch"}]

\* filter_args as compare_device_level builds them; None and [] are <<>>
DeviceFilterArgs ==
    [network_tags : {<<>>, <<"n1">>}, device_models : {<<>>, <<"MX">>},
     device_tags : {<<>>, <<"t1">>}, product_types : {<<>>, <<"appliance">>}]

\* the tags of the network that owns the device
OwnerNetworkTags == {<<>>, <<"n1">>}

InitDevice ==
    /\ device_in \in [entity : DeviceRecords, filter_args : DeviceFilterArgs,
                      owner_tags : OwnerNetworkTags]
    /\ device_out = <<>>
    /\ pc = "device"
    /\ baseline = JNull
    /\ current = JNull
    /\ group_by_key = ""
    /\ method = "deepdiff"
    /\ summary = EmptySummary
    /\ diff_events = <<>>
    /\ flat_ref = <<>>
    /\ flat_cur = <<>>
    /\ flat_out = [has_changes |-> FALSE, detailed_changes |-> <<>>]
    /\ OrchIdle
    /\ CoreIdle
    /\ UiIdle
    /\ transform_in = <<>>
    /\ transform_out = <<>>
    /\ grouping_in = <<>>
    /\ grouping_out = <<>>
    /\ path_in = ""
    /\ path_out = <<>>

\* `entity_filter_func(entity, scope, operation_name, filter_args)` in the
\* loop of _compare_level_general
FilterDevice ==
    /\ pc = "device"
    /\ device_out' = [accepted |-> _device_filter(device_in.entity, device_in.filter_args)]
    /\ pc' = "filtered"
    /\ UNCHANGED <<baseline, current, group_by_key, method, summary, diff_events,
                   flat_ref, flat_cur, flat_out, device_in,
                   transform_in, transform_out, grouping_in, grouping_out,
                   path_in, path_out>>
    /\ UNCHANGED <<orchVars, coreVars, uiVars>>

NextDevice == FilterDevice

SpecDevice == InitDevice /\ [][NextDevice]_vars

\* an allow-list that is absent or empty filters nothing; a supplied one
\* must share a value with the values of the device
Allows(allow_list, values) == allow_list = <<>> \/ Range(allow_list) \cap values # {}

\* C15: a device record of the entity source is accepted iff every
\* supplied non-empty allow-list matches it: device tags against its tags,
\* models against its model, product types against its product type, and
\* network tags against the tags of its owning network.
C15_DeviceFilterMatchesAllowLists ==
    pc = "filtered" =>
        (device_out.accepted <=>
            /\ Allows(device_in.filter_args.device_tags, Range(device_in.entity.tags))
            /\ Allows(device_in.filter_args.device_models, {device_in.entity.model})
            /\ Allows(device_in.filter_args.product_types, {device_in.entity.productType})
            /\ Allows(device_in.filter_args.network_tags, Range(device_in.owner_tags)))

-----------------------------------------------------------------------------
(* _extract_path_components on its own                                     *)

MaxSegments == 3  \* longest path handed to _extract_path_components

\* segments of a DeepDiff path: sequence indexes and map keys, among them
\* a key of digits, an empty key, a key holding a quote and keys holding dots
PathSegments == {JInt(0), JInt(12), JStr("a"), JStr("0"), JStr(""), JStr("it's"), JStr("a..b")}

\* strings that are not the path of any element below the root
MalformedPaths == {"", "root", "rootx", "root[", "root[]", "root['a'", "data['a']"}

\* DeepDiff's text of the path that leads through the segments
RECURSIVE PathText(_)
PathText(segments) ==
    IF segments = <<>> THEN "root"
    ELSE PathText(SubSeq(segments, 1, Len(segments) - 1)) \o PathSeg(segments[Len(segments)])

InitPath ==
    /\ path_in \in {[segments |-> q, path_str |-> PathText(q)] :
                        q \in SeqsUpTo(PathSegments, MaxSegments) \ {<<>>}}
                   \cup {[segments |-> <<>>, path_str |-> str] : str \in MalformedPaths}
    /\ path_out = <<>>
    /\ pc = "path"
    /\ baseline = JNull
    /\ current = JNull
    /\ group_by_key = ""
    /\ method = "deepdiff"
    /\ summary = EmptySummary
    /\ diff_events = <<>>
    /\ flat_ref = <<>>
    /\ flat_cur = <<>>
    /\ flat_out = [has_changes |-> FALSE, detailed_changes |-> <<>>]
    /\ OrchIdle
    /\ CoreIdle
    /\ UiIdle
    /\ transform_in = <<>>
    /\ transform_out = <<>>
    /\ grouping_in = <<>>
    /\ grouping_out = <<>>
    /\ device_in = <<>>
    /\ device_out = <<>>

\* `item_id, field, is_root_item = _extract_path_components(path)`
ExtractPath ==
    /\ pc = "path"
    /\ path_out' = _extract_path_components(path_in.path_str)
    /\ pc' = "extracted"
    /\ UNCHANGED <<baseline, current, group_by_key, method, summary, diff_events,
                   flat_ref, flat_cur, flat_out, path_in,
                   transform_in, transform_out, grouping_in, grouping_out,
                   device_in, device_out>>
    /\ UNCHANGED <<orchVars, coreVars, uiVars>>

NextPath == ExtractPath

SpecPath == InitPath /\ [][NextPath]_vars

\* the texts of the segments joined with '.'
RECURSIVE JoinDots(_)
JoinDots(segments) ==
    IF Len(segments) = 1 THEN KeyText(segments[1])
    ELSE KeyText(segments[1]) \o "." \o JoinDots(Tail(segments))

\* what the path codec is described to return for a path
ExpectedComponents(segments) ==
    IF segments = <<>> THEN NoPath
    ELSE [item_id |-> segments[1],
          field |-> IF Len(segments) = 1 THEN JNull ELSE JStr(JoinDots(Tail(segments))),
          is_root_item |-> Len(segments) = 1]

\* C24: for a path of one or more segments _extract_path_components returns
\* the first segment as item_id (an integer for an index, a string for a
\* key), is_root_item true iff there is exactly one segment and the other
\* segments joined with '.' as field (null when there are none); for an
\* empty or malformed path it returns (None, None, False).
C24_PathComponents ==
    pc = "extracted" => path_out = ExpectedComponents(path_in.segments)

\* keys that hold no quote and no run of dots and are not empty
PlainSegment(k) == k.t = "int" \/ (k.s # "" /\ ~InStr("'", k.s) /\ CollapseDots(StripDots(k.s)) = k.s)

\* the components are the described ones when every segment is an index or
\* a plain key
C24_OnPlainSegments ==
    (pc = "extracted" /\ \A i \in 1..Len(path_in.segments) : PlainSegment(path_in.segments[i]))
        => path_out = ExpectedComponents(path_in.segments)

-----------------------------------------------------------------------------
(* The structural classifier applied to a diff report                      *)

\* root maps with plain keys, the empty key and a key holding a quote
OddKeys == {"a", "b", "", "it's"}

\* the values a key takes in these maps
OddKeyValues(k) ==
    CASE k = "a" -> {JStr("x"), JStr("y")}
      [] k = ""  -> {JStr("x"), JMap([j \in {"j"} |-> JStr("x")]), JMap([j \in {"j"} |-> JStr("y")])}
      [] OTHER   -> {JStr("x")}

OddKeyMaps ==
    {JMap(f) : f \in UNION {{g \in [D -> UNION {OddKeyValues(k) : k \in OddKeys}] :
                                \A k \in D : g[k] \in OddKeyValues(k)} :
                             D \in SUBSET OddKeys}}

\* the elements of root sequences compared without a grouping key
SequenceElements ==
    {JStr("x"), JStr("y"), JNull,
     JMap([k \in {"val"} |-> JStr("x")]), JMap([k \in {"val"} |-> JStr("y")])}

SequenceSnapshots == {JList(q) : q \in SeqsUpTo(SequenceElements, MaxLen)}

\* the ways DeepDiff may pair a removed with an added element of a sequence
\* and report their differences instead (ignore_order pairs elements whose
\* distance is below cutoff_distance_for_pairs; the distance is not
\* modelled, a scalar is at the full distance from any other value): the
\* injective partial maps from the removed maps to the added maps
Pairings(t1, t2) ==
    LET removed == {i \in Range(UnmatchedIndexes(t1.l, t2.l)) : IsDict(t1.l[i])}
        added   == {j \in Range(UnmatchedIndexes(t2.l, t1.l)) : IsDict(t2.l[j])}
    IN UNION {{f \in [D -> added] : \A i, j \in D : f[i] = f[j] => i = j} :
                 D \in SUBSET removed}

\* the diff of two root sequences for one pairing: the differences of each
\* pair under the index of its element in t1, and the elements left over
SequenceEvents(t1, t2, pairing) ==
    LET paired == SelectSeq([i \in 1..Len(t1.l) |-> i], LAMBDA i : i \in DOMAIN pairing)
    IN    ConcatAll([n \in 1..Len(paired) |->
              DiffValue("root" \o PathSeg(JInt(paired[n] - 1)),
                        t1.l[paired[n]], t2.l[pairing[paired[n]]])])
       \o UnpairedEvents("root", t1, t2, DOMAIN pairing, {pairing[i] : i \in DOMAIN pairing})

SequenceReports(t1, t2) ==
    {ByReportKey(SequenceEvents(t1, t2, p)) : p \in Pairings(t1, t2)}

\* a root map against a root sequence and the reverse
ReplacedRoots ==
    LET maps == {b \in OddKeyMaps : DOMAIN b.m \subseteq {"a", "b"}}
        seqs == {c \in SequenceSnapshots : Len(c.l) <= 1}
    IN {<<b, c>> : b \in maps, c \in seqs} \cup {<<c, b>> : b \in maps, c \in seqs}

\* (json1, json2, diff_output) of the classifier runs: root maps with the
\* report of DeepDiff, root sequences with each report DeepDiff may give,
\* a root map against a root sequence, and the reports whose field paths
\* are looked up in the snapshots
ClassifyInputs ==
       {<<b, c, DeepDiff(b, c, "").events>> : b \in OddKeyMaps, c \in OddKeyMaps}
  \cup {<<in[1], in[2], DeepDiff(in[1], in[2], "").events>> : in \in ReplacedRoots}
  \cup UNION {{<<b, c, r>> : r \in SequenceReports(b, c)} :
                 b \in SequenceSnapshots, c \in SequenceSnapshots}
  \cup {<<in[1], in[2], DeepDiff(in[1], in[2], in[3]).events>> : in \in LookupInputs}

InitClassify ==
    /\ \E in \in ClassifyInputs :
          /\ baseline = in[1]
          /\ current = in[2]
          /\ diff_events = in[3]
    /\ group_by_key = ""
    /\ method = "deepdiff"
    /\ summary = EmptySummary
    /\ flat_ref = <<>>
    /\ flat_cur = <<>>
    /\ flat_out = [has_changes |-> FALSE, detailed_changes |-> <<>>]
    /\ pc = "classify"
    /\ OrchIdle
    /\ CoreIdle
    /\ UiIdle
    /\ FnIdle

\* compare_differences from the loop over diff_output on, and
\* _summarize_diff_results on what it returns; a ValueError of the loop ends
\* the call
Classify ==
    /\ pc = "classify"
    /\ IF FormatRaises(diff_events, baseline, current)
       THEN /\ pc' = "raised"
            /\ UNCHANGED summary
       ELSE /\ pc' = "classified"
            /\ summary' = _summarize_diff_results(FormatDiff(diff_events, baseline, current),
                                                  diff_events)
    /\ UNCHANGED <<baseline, current, group_by_key, method, diff_events,
                   flat_ref, flat_cur, flat_out>>
    /\ UNCHANGED <<orchVars, coreVars, uiVars, fnVars>>

NextClassify == Classify

SpecClassify == InitClassify /\ [][NextClassify]_vars

-----------------------------------------------------------------------------
(* C21: events without an item id, and the order of the returned list      *)

\* final_formatted_output of the run
ReturnedList == FormatDiff(diff_events, baseline, current)

\* the event's path gives no item id and the event is not the value change
\* of the root, which has a rule of its own
WithoutItemId(ev) ==
    /\ IsNone(_extract_path_components(ev.path).item_id)
    /\ ~(ev.kind = "values_changed" /\ ev.path = "root")

\* the item ids an event files a change under, in order
TouchedIds(ev) ==
    LET pth == _extract_path_components(ev.path)
    IN IF ev.kind = "values_changed" /\ ev.path = "root"
       THEN (IF IsDict(ev.old_value) THEN ev.old_value.l ELSE <<>>)
            \o (IF IsDict(ev.new_value) THEN ev.new_value.l ELSE <<>>)
       ELSE IF IsNone(pth.item_id) THEN <<>>
       ELSE IF ev.kind \in {"values_changed", "dictionary_item_added", "dictionary_item_removed"}
       THEN <<pth.item_id>>
       ELSE IF ev.kind \in {"iterable_item_added", "iterable_item_removed"} /\ pth.is_root_item
       THEN <<pth.item_id>>
       ELSE <<>>

\* a sequence without the later occurrences of its elements
RECURSIVE FirstOccurrences(_)
FirstOccurrences(q) ==
    IF q = <<>> THEN <<>>
    ELSE LET rest == FirstOccurrences(SubSeq(q, 1, Len(q) - 1))
         IN IF q[Len(q)] \in Range(rest) THEN rest ELSE Append(rest, q[Len(q)])

FirstSeenIds ==
    FirstOccurrences(ConcatAll([i \in 1..Len(diff_events) |-> TouchedIds(diff_events[i])]))

\* C21: every diff event whose path gives no item id produces exactly one
\* OtherChange whose field is the raw path and no EntityChange; in the
\* returned list every OtherChange comes after every EntityChange, and the
\* EntityChanges are in the order in which their item ids were first seen.
C21_OtherChangesAndOrder ==
    pc = "classified" =>
        /\ summary.relevant_changes = SelectSeq(ReturnedList, LAMBDA d : d.status # "other")
        /\ summary.other_changes = SelectSeq(ReturnedList, LAMBDA d : d.status = "other")
        /\ \A i \in 1..Len(diff_events) :
              WithoutItemId(diff_events[i]) =>
                  /\ Cardinality({n \in 1..Len(summary.other_changes) :
                                     /\ summary.other_changes[n].field = JStr(diff_events[i].path)
                                     /\ IsNone(summary.other_changes[n].item_id)})
                       = Cardinality({j \in 1..Len(diff_events) :
                                         /\ WithoutItemId(diff_events[j])
                                         /\ diff_events[j].path = diff_events[i].path})
                  /\ TouchedIds(diff_events[i]) = <<>>
        /\ \A n \in 1..Len(summary.relevant_changes) :
              ~IsNone(summary.relevant_changes[n].item_id)
        /\ ReturnedList = summary.relevant_changes \o summary.other_changes
        /\ [n \in 1..Len(summary.relevant_changes) |-> summary.relevant_changes[n].item_id]
             = FirstSeenIds

\* a run with two EntityChanges and an OtherChange made from an event whose
\* path gives no item id
C21_Witness ==
    /\ pc = "classified"
    /\ Len(summary.relevant_changes) >= 2
    /\ \E i \in 1..Len(diff_events) :
          /\ WithoutItemId(diff_events[i])
          /\ diff_events[i].path # "root"
          /\ \E n \in 1..Len(summary.other_changes) :
                summary.other_changes[n] =
                    OtherChange(JNull, JStr(diff_events[i].path),
                                summary.other_changes[n].reference_value,
                                summary.other_changes[n].current_value)

-----------------------------------------------------------------------------
(* C22: the root replaced as a whole                                       *)

\* the report holds one event, at path 'root': the root of one snapshot is
\* a map and the root of the other a sequence
RootReplaced ==
    /\ Len(diff_events) = 1
    /\ diff_events[1].path = "root"

\* the number of EntityChanges of the item with the status and the changes
EntriesWith(item_id, status, changes) ==
    Cardinality({n \in 1..Len(summary.relevant_changes) :
                    summary.relevant_changes[n] = EntityChange(item_id, status, changes)})

\* C22: when the root is replaced as a whole, each key of an old root that
\* is a map becomes an EntityChange 'removed' carrying the key's old value,
\* each key of a new root that is a map becomes an EntityChange 'added'
\* carrying the key's new value, and when neither root is a map exactly one
\* OtherChange and no EntityChange is emitted.
C22_RootReplacedFansOut ==
    (pc = "classified" /\ RootReplaced) =>
        LET old == diff_events[1].old_value
            new == diff_events[1].new_value
        IN /\ IsDict(old) =>
                 \A k \in DOMAIN old.m :
                     EntriesWith(JStr(k), "removed", <<FieldChange(JNull, old.m[k], NA)>>) = 1
           /\ IsDict(new) =>
                 \A k \in DOMAIN new.m :
                     EntriesWith(JStr(k), "added", <<FieldChange(JNull, NA, new.m[k])>>) = 1
           /\ (~IsDict(old) /\ ~IsDict(new)) =>
                 /\ Len(summary.other_changes) = 1
                 /\ summary.relevant_changes = <<>>

\* a replaced root is reported as one OtherChange with the path 'root' as
\* field and no item id, whatever the roots hold
ReplacedRootIsOneOtherChange ==
    (pc = "classified" /\ RootReplaced) =>
        /\ summary.relevant_changes = <<>>
        /\ summary.other_changes =
              <<OtherChange(JNull, JStr("root"), diff_events[1].old_value,
                            diff_events[1].new_value)>>

\* DeepDiff reports no value change at path 'root'
NoValueChangeAtRoot ==
    \A i \in 1..Len(diff_events) :
        ~(diff_events[i].kind = "values_changed" /\ diff_events[i].path = "root")

-----------------------------------------------------------------------------
(* The status of an item while the events are classified                   *)

\* grouped_item_changes after the first k events of the report
GroupedAfter(k) ==
    ClassifyAll(NothingClassified, SubSeq(diff_events, 1, k), baseline, current).g

\* no report holds an event for an item after the event that gave the item
\* the status 'added' or 'removed': the entry of such an item stays as it is
NoEventFollowsAWholeItemStatus ==
    pc = "classified" =>
        \A k \in 1..Len(diff_events) :
            \A n \in 1..Len(GroupedAfter(k - 1)) :
                GroupedAfter(k - 1)[n].status \in {"added", "removed"}
                    => GroupedAfter(k)[n] = GroupedAfter(k - 1)[n]

\* an item that is 'changed' is 'added' after a later event of the report
ChangedItemBecomesAdded ==
    /\ pc = "classified"
    /\ \E k \in 1..Len(diff_events) :
          \E n \in 1..Len(GroupedAfter(k - 1)) :
              /\ GroupedAfter(k - 1)[n].status = "changed"
              /\ GroupedAfter(k)[n].status = "added"

-----------------------------------------------------------------------------
(* C28: whole elements of root sequences compared without grouping key     *)

SequenceRun == IsList(baseline) /\ IsList(current) /\ group_by_key = ""

\* the EntityChanges of the status in the summary
EntriesOfStatus(status) == SelectSeq(summary.relevant_changes, LAMBDA d : d.status = status)

\* the elements of baseline DeepDiff matched with an element of current
\* they differ from: the report holds events below their index
MatchedElements ==
    {i \in 1..Len(baseline.l) :
        \E n \in 1..Len(diff_events) :
            LET pth == _extract_path_components(diff_events[n].path)
            IN pth.item_id = JInt(i - 1) /\ ~pth.is_root_item}

\* the elements of baseline that current lacks and that are matched with
\* no element of current, each value once
RemovedElements ==
    Len(UnmatchedIndexes(baseline.l, current.l)) - Cardinality(MatchedElements)

\* the elements of current that baseline lacks and that are matched with no
\* element of baseline, each value once
AddedElements ==
    Len(UnmatchedIndexes(current.l, baseline.l)) - Cardinality(MatchedElements)

\* C28: without grouping key on root sequences no whole element is lost or
\* merged: there are as many 'removed' EntityChanges as removed elements and
\* as many 'added' EntityChanges as added elements, also when a removed and
\* an added element carry the same index.
C28_NoWholeItemEventIsLost ==
    (pc = "classified" /\ SequenceRun) =>
        /\ Len(EntriesOfStatus("removed")) = RemovedElements
        /\ Len(EntriesOfStatus("added")) = AddedElements

\* no index holds both an element of baseline that current lacks and an
\* element of current that baseline lacks
NoSharedIndex ==
    \A i \in Range(UnmatchedIndexes(baseline.l, current.l)) :
        i \in MatchedElements \/ i \notin Range(UnmatchedIndexes(current.l, baseline.l))

\* the counts agree when the removed and the added elements are at
\* different indexes
CountsAgreeOnDistinctIndexes ==
    (pc = "classified" /\ SequenceRun /\ NoSharedIndex) => C28_NoWholeItemEventIsLost

-----------------------------------------------------------------------------
(* Compare passes over baselines and snapshots of any JSON type            *)

\* a baseline file holds any JSON value: a number, a string, an empty or
\* non-empty map or sequence
BatchBaselineFiles ==
    {FailingFile(x) : x \in LoadFailures}
    \cup {LoadedFile(d) :
             d \in {JInt(5), JInt(0), JStr(""), JMap(<<>>), JList(<<>>),
                    JMap([k \in {"a"} |-> JInt(1)]), JList(<<JInt(1)>>)}}

\* entities whose fetch returns a map, a number, a sequence or nothing or
\* raises, an entity without id and an entity of another organization
BatchEntityRecords ==
    {Listed(JStr("o1"), Answer(d)) :
        d \in {JMap([k \in {"a"} |-> JInt(1)]), JInt(5), JList(<<JInt(1)>>)}}
    \cup {Listed(JNull, Answer(JMap([k \in {"a"} |-> JInt(1)]))),
          Listed(JStr("o2"), ApiError),
          Listed(JStr("o2"), OtherError),
          Listed(JStr("o1"), NoAnswer)}

InitBatch ==
    /\ scope \in CompareScopes
    /\ \E q \in SeqsUpTo(BatchEntityRecords, MaxEntities) : entities = Named(q)
    /\ listing \in ListingOutcomes
    /\ org_ids \in OrgIdFilters
    /\ scope \in {NetworkScope, DeviceScope} => org_ids = <<>>
    /\ filters \in PassFilters(scope)
    /\ baseline_file \in BatchBaselineFiles
    /\ method \in MethodNames
    /\ impl \in Implementations
    /\ group_by_key = OperationGroupBy(scope)
    /\ baseline = JNull
    /\ current = JNull
    /\ summary = EmptySummary
    /\ diff_events = <<>>
    /\ flat_ref = <<>>
    /\ flat_cur = <<>>
    /\ flat_out = [has_changes |-> FALSE, detailed_changes |-> <<>>]
    /\ pc = "orchestrated"
    /\ idx = 0
    /\ results = <<>>
    /\ fetch_log = <<>>
    /\ opc = "called"
    /\ returned = ReturnList(<<>>)
    /\ task = "compare"
    /\ store_env = [has_fetch |-> TRUE, fetch |-> "data", save |-> "ok"]
    /\ saved = <<>>
    /\ UiIdle
    /\ FnIdle

SpecBatch == InitBatch /\ [][NextOrch]_vars

\* a map or a sequence
IsContainer(v) == IsDict(v) \/ IsList(v)

\* the pass loaded its baseline file, knows its engine, and no fetch of an
\* accepted entity raises
LoadedPass ==
    /\ opc = "returned"
    /\ Loads(baseline_file)
    /\ listing = "ok"
    /\ method \in Registry(impl)
    /\ \A i \in Range(AcceptedIndexes) : FetchOf(i).kind \notin {"raise", "error"}

\* the accepted entities whose fetch returns data
ComparedIndexes ==
    SelectSeq(AcceptedIndexes, LAMBDA i : FetchOf(i).kind = "data")

\* the entries of the returned list for the entity of the name
EntriesNamed(name) == SelectSeq(returned.items, LAMBDA r : r.name = name)

-----------------------------------------------------------------------------
(* C25: roots that are neither map nor sequence                            *)

\* C25: when the baseline root or the current root is neither a map nor a
\* sequence, both differs return an empty result without raising, so the
\* entity still gets a summary with has_diffs = false and the other
\* entities of the batch are processed.
C25_InvalidRootsGiveEmptySummaries ==
    LoadedPass =>
        /\ returned.t = "list"
        /\ \A i \in Range(ComparedIndexes) :
              (~IsContainer(baseline_file.data) \/ ~IsContainer(FetchOf(i).data)) =>
                  /\ compare_differences(baseline_file.data, FetchOf(i).data, "")
                       = [res |-> <<>>, dif |-> <<>>, raised |-> FALSE]
                  /\ \A g \in {"", GroupKey} :
                        /\ ~FlatRaises(baseline_file.data, FetchOf(i).data, g)
                        /\ flat_compare_differences_enhanced(
                               Processed(baseline_file.data, g),
                               Processed(FetchOf(i).data, g))
                             = [has_changes |-> FALSE, detailed_changes |-> <<>>]
                  /\ EntriesNamed(entities[i].name)
                       = <<[name |-> entities[i].name, summary |-> EmptySummary]>>
        /\ (\E i \in Range(ComparedIndexes) : ~IsContainer(baseline_file.data)
                                              \/ ~IsContainer(FetchOf(i).data))
              => Len(returned.items) = Len(ComparedIndexes)

\* the same for passes whose baseline is not an empty or zero value
C25_OnTruthyBaseline ==
    Truthy(baseline_file.data) => C25_InvalidRootsGiveEmptySummaries

-----------------------------------------------------------------------------
(* C29: an empty baseline                                                  *)

\* C29: when the baseline file loads, every eligible entity whose fetch
\* returns data gets a summary comparing the baseline with its current
\* snapshot, also when the baseline is an empty map or an empty sequence.
C29_EmptyBaselineIsCompared ==
    (LoadedPass /\ IsContainer(baseline_file.data)) =>
        returned = ReturnList(
            [j \in 1..Len(ComparedIndexes) |->
                [name |-> entities[ComparedIndexes[j]].name,
                 summary |-> CompareFunc(method, baseline_file.data,
                                         FetchOf(ComparedIndexes[j]).data,
                                         group_by_key)]])

\* the same for passes whose baseline is not empty
C29_OnNonEmptyBaseline ==
    Truthy(baseline_file.data) => C29_EmptyBaselineIsCompared

-----------------------------------------------------------------------------
(* C26: the flat engine misses no drift                                    *)

\* C26: for baseline and current with map or sequence roots the flat
\* comparison reports has_changes = false only when the two snapshots are
\* equal; every difference is reported as at least one detailed change.
C26_FlatReportsEveryDifference ==
    (FlatRun /\ IsContainer(baseline) /\ IsContainer(current)) =>
        /\ flat_out.has_changes <=> flat_out.detailed_changes # <<>>
        /\ summary.has_diffs = flat_out.has_changes
        /\ ~flat_out.has_changes => PyEq(baseline, current)

\* a map without empty containers, nulls and keys of digits, whose values
\* are scalars or such maps
RECURSIVE PlainMap(_)
PlainMap(v) ==
    /\ IsDict(v)
    /\ \A k \in DOMAIN v.m :
          /\ ~IsIntText(k) /\ k # "" /\ FindChar(k, ".", 1) = 0
          /\ v.m[k].t \in {"int", "str"} \/ (PlainMap(v.m[k]) /\ DOMAIN v.m[k].m # {})

\* differences between two plain maps are reported
C26_OnPlainMaps ==
    (PlainMap(baseline) /\ PlainMap(current)) => C26_FlatReportsEveryDifference

-----------------------------------------------------------------------------
(* C27: items of both snapshots under the flat engine with a grouping key  *)

\* the item ids of the rows of a keyed sequence, as the flat engine names them
ItemIdsOf(v) == {JStr(KeyText(v.l[i].m[GroupKey])) : i \in 1..Len(v.l)}

FlatKeyedRun ==
    /\ FlatRun
    /\ group_by_key = GroupKey
    /\ KeyedList(baseline) /\ DistinctKeys(baseline.l)
    /\ KeyedList(current) /\ DistinctKeys(current.l)

\* the change stands for a whole item
IsWholeItemChange(c) == IsNone(c.field) /\ (c.reference_value = NA \/ c.current_value = NA)

\* C27: with a grouping key the flat engine never reports an item whose key
\* value is in both snapshots as 'added' or 'removed' and never replaces its
\* field changes by a whole-item change; only items of exactly one snapshot
\* get the status 'added' or 'removed'.
C27_CommonItemsAreOnlyChanged ==
    FlatKeyedRun =>
        \A n \in 1..Len(summary.relevant_changes) :
            LET e == summary.relevant_changes[n]
            IN /\ e.status \in {"added", "removed"} =>
                     ~(e.item_id \in ItemIdsOf(baseline) /\ e.item_id \in ItemIdsOf(current))
               /\ (e.item_id \in ItemIdsOf(baseline) /\ e.item_id \in ItemIdsOf(current)) =>
                     \A j \in 1..Len(e.changes) : ~IsWholeItemChange(e.changes[j])

\* the same when the rows carry the same fields and each of them holds a
\* string or a number
C27_OnFieldsWithoutNull ==
    (\A v \in {baseline, current} :
        IsList(v) => \A i \in 1..Len(v.l) :
            IsDict(v.l[i]) => \A f \in DOMAIN v.l[i].m : v.l[i].m[f].t \in {"int", "str"})
        => C27_CommonItemsAreOnlyChanged

-----------------------------------------------------------------------------
(* C30: consistency of a ComparisonSummary, both engines                    *)

EngineDone == pc = "done" /\ method \in {"deepdiff", "flat"}

RelevantWith(status) ==
    {n \in 1..Len(summary.relevant_changes) : summary.relevant_changes[n].status = status}

\* C30: in the summary of either engine the counts added, removed and changed
\* equal the numbers of relevant entries of that status, the count other
\* equals the length of other_changes, every relevant entry has the status
\* added, removed or changed, and has_diffs is true exactly when
\* relevant_changes or other_changes is not empty.
C30_SummaryIsConsistent ==
    EngineDone =>
        /\ summary.summary_counts.added = Cardinality(RelevantWith("added"))
        /\ summary.summary_counts.removed = Cardinality(RelevantWith("removed"))
        /\ summary.summary_counts.changed = Cardinality(RelevantWith("changed"))
        /\ summary.summary_counts.other = Len(summary.other_changes)
        /\ \A n \in 1..Len(summary.relevant_changes) :
               summary.relevant_changes[n].status \in {"added", "removed", "changed"}
        /\ summary.has_diffs <=>
               (summary.relevant_changes # <<>> \/ summary.other_changes # <<>>)

\* a run of the DeepDiff engine whose summary holds entries of both lists
C30_Witness ==
    /\ EngineDone
    /\ method = "deepdiff"
    /\ summary.has_diffs
    /\ summary.relevant_changes # <<>>
    /\ summary.other_changes # <<>>

C30_WitnessFlat ==
    /\ EngineDone
    /\ method = "flat"
    /\ summary.has_diffs
    /\ \E n \in 1..Len(summary.relevant_changes) : Len(summary.relevant_changes[n].changes) > 1

====
